---- MODULE Spec2Model ----
(***************************************************************************)
(* StravaAI backend: token lifecycle (session tokens, upstream OAuth       *)
(* tokens, refresh, retry-on-401), the user collection and the activity    *)
(* collection, modelled from the Python sources under src/app.             *)
(*                                                                         *)
(* Time is in whole seconds.  Every await of the source (a data-store      *)
(* call, an upstream HTTP call) ends one atomic step of a request; the     *)
(* code between two awaits runs without interleaving (asyncio).            *)
(***************************************************************************)
EXTENDS Integers, Sequences, FiniteSets, TLC

\* ------------------------------------------------------------------ bounds
MaxTicks == 1
MaxIssued == 2
MaxRequests == 2
MaxSyncCalls == 2
MaxLimit == 2
MaxMilestones == 2
MaxRecords == 3
MaxJwtTicks == 2

Procs == {"p1", "p2"}
AthleteIds == {1, 2}

\* --------------------------------------------------------------- constants
BufferTime == 5 * 60
JwtTtl == 7 * 86400
ExpiresIn == {6 * 3600}
TickSteps == {BufferTime}
NoExpiry == 0 - 1

\* ------------------------------------------------------------------ tokens
\* An upstream token value as Python sees it: None, "", a plaintext token
\* string, or a Fernet ciphertext of a plaintext token.
NoneTok == [k |-> "none", v |-> 0]
EmptyTok == [k |-> "empty", v |-> 0]
Plain(n) == [k |-> "plain", v |-> n]
Cipher(n) == [k |-> "fernet", v |-> n]
\* A ciphertext written under a key the process no longer has (the key is
\* generated at start-up when the environment sets none).
OldCipher(n) == [k |-> "fernet_old", v |-> n]

Truthy(tok) == tok.k \notin {"none", "empty"}

encrypt_token_plaintext(token) ==
    IF Truthy(token) THEN token ELSE EmptyTok

encrypt_token(token) ==
    IF ~Truthy(token) THEN EmptyTok
    ELSE IF token.k = "plain" THEN Cipher(token.v)
    ELSE [k |-> "fernet2", v |-> token.v]

decrypt_token(encrypted_token) ==
    IF ~Truthy(encrypted_token) THEN EmptyTok
    ELSE IF encrypted_token.k = "fernet" THEN Plain(encrypted_token.v)
    ELSE IF encrypted_token.k = "fernet2" THEN Cipher(encrypted_token.v)
    ELSE EmptyTok

\* ---------------------------------------------------------- session tokens
NoJwt == [user_id |-> 0, username |-> "", exp |-> 0, iat |-> 0, sig |-> "absent"]

create_jwt_token(user_id, username, t) ==
    [user_id |-> user_id, username |-> username,
     exp |-> t + JwtTtl, iat |-> t, sig |-> "ok"]

decode_jwt_token_unchecked_exp(token, t) ==
    IF token.sig # "ok" THEN {[err |-> "invalid", payload |-> NoJwt]}
    ELSE {[err |-> "none", payload |-> token]}

\* pyjwt.decode with verification of exp: the outcomes the library can give.
\* At the instant t = exp the outcome depends on the library version
\* (exp < now in 1.x, exp <= now in 2.x), so both are possible.
decode_jwt_token(token, t) ==
    IF token.sig # "ok" THEN {[err |-> "invalid", payload |-> NoJwt]}
    ELSE IF token.exp < t THEN {[err |-> "expired", payload |-> NoJwt]}
    ELSE IF token.exp > t THEN {[err |-> "none", payload |-> token]}
    ELSE {[err |-> "expired", payload |-> NoJwt], [err |-> "none", payload |-> token]}

validate_jwt_token(token, t) ==
    { IF d.err # "none" THEN d
      ELSE IF d.payload.user_id = 0 \/ d.payload.username = ""
           THEN [err |-> "invalid_payload", payload |-> NoJwt]
           ELSE d
      : d \in decode_jwt_token(token, t) }

decode_jwt_token_allow_expired(token) ==
    IF token.sig # "ok" THEN [err |-> "invalid", payload |-> NoJwt]
    ELSE [err |-> "none", payload |-> token]

\* ------------------------------------------------------- upstream tokens
is_strava_token_expired(expires_at, t) == t > expires_at - BufferTime

\* A response of the upstream token endpoint: status 200 with a body, a
\* non-200 status, or no response at all (status 0: the HTTP client raises).
\* A field missing from the body is None (dict.get), a missing expires_at is
\* NoExpiry.
NoResp == [status |-> 0, n |-> 0, access_token |-> NoneTok,
           refresh_token |-> NoneTok, expires_at |-> NoExpiry]

TokenResponses(n, t) ==
    LET full(e) == [status |-> 200, n |-> n, access_token |-> Plain(n),
                    refresh_token |-> Plain(n), expires_at |-> e]
    IN  { full(t + d) : d \in ExpiresIn }
        \cup { [full(t + d) EXCEPT !.access_token = NoneTok] : d \in ExpiresIn }
        \cup { [full(t + d) EXCEPT !.refresh_token = NoneTok] : d \in ExpiresIn }
        \cup { full(NoExpiry) }
        \cup { [NoResp EXCEPT !.status = 200, !.n = n] }
        \cup { [NoResp EXCEPT !.status = 400], NoResp }

\* `if refreshed_tokens:` - a dict is truthy unless it is empty.
BodyTruthy(resp) ==
    /\ resp.status = 200
    /\ \/ Truthy(resp.access_token)
       \/ Truthy(resp.refresh_token)
       \/ resp.expires_at # NoExpiry

WellFormed(resp) ==
    /\ resp.status = 200
    /\ Truthy(resp.access_token)
    /\ Truthy(resp.refresh_token)
    /\ resp.expires_at # NoExpiry

\* refresh_strava_access_token: the JSON body on 200, None otherwise; the
\* HTTP client's exception propagates.
refresh_strava_access_token(resp) ==
    IF resp.status = 0 THEN "raise"
    ELSE IF resp.status = 200 /\ BodyTruthy(resp) THEN "tokens"
    ELSE "none"

\* ---------------------------------------------------------- user records
NoUser == [strava_id |-> 0, username |-> "", access_token |-> NoneTok,
           refresh_token |-> NoneTok, token_expires_at |-> NoExpiry]

UsernameOf(id) == IF id = 1 THEN "alice" ELSE ""

Triple(u) == [access_token |-> u.access_token,
              refresh_token |-> u.refresh_token,
              token_expires_at |-> u.token_expires_at]

\* The triple the code computes from a token response before it writes.
EncTriple(resp) == [access_token |-> encrypt_token(resp.access_token),
                    refresh_token |-> encrypt_token(resp.refresh_token),
                    token_expires_at |-> resp.expires_at]

VARIABLES
    users,      \* the user collection, in natural (insertion) order
    session,    \* request.session["jwt_token"] of the request each worker serves
    bearer,     \* the Authorization: Bearer token of that request
    attached,   \* request.state.user
    proc,       \* each worker's request: operation, position, locals
    now,        \* the clock
    ticks,
    issued,     \* token endpoint responses delivered so far
    delivered,  \* <<number, triple>> of each 200 response, encrypted as the code would store it
    writes,     \* the response numbers of the token writes, in their order
    started,
    activities, \* the activity collection, in natural (insertion) order
    synced,     \* per external activity id, the payload synced last
    lastSync,   \* the last sync_user_activities call and what it reported
    icall,      \* each worker's call into the insight service or a lookup route
    history,    \* the calls that have returned, in their order
    aiCalls,    \* AIClient.generate_json invocations so far
    report      \* the last aggregation or milestone call and what it returned

vars == <<users, session, bearer, attached, proc, now, ticks, issued,
          delivered, writes, started, activities, synced, lastSync,
          icall, history, aiCalls, report>>

syncVars == <<activities, synced, lastSync>>

appVars == <<icall, history, aiCalls, report>>

\* find_one({"strava_id": id}): the first matching document.
get_user_by_strava_id(id) ==
    IF \E i \in 1..Len(users) : users[i].strava_id = id
    THEN users[CHOOSE i \in 1..Len(users) :
                   /\ users[i].strava_id = id
                   /\ \A j \in 1..(i - 1) : users[j].strava_id # id]
    ELSE NoUser

update_user_tokens_partial(strava_id, access_token, refresh_token, expires_at) ==
    LET hit == { i \in 1..Len(users) : users[i].strava_id = strava_id }
        first == CHOOSE i \in hit : \A j \in hit : i <= j
    IN  IF hit = {} THEN users
        ELSE [users EXCEPT ![first].access_token = access_token,
                           ![first].token_expires_at = expires_at]

\* update_one({"strava_id": id}, {"$set": {...}}): one document, all three
\* fields in one atomic write.
update_user_tokens(strava_id, access_token, refresh_token, expires_at) ==
    LET hit == { i \in 1..Len(users) : users[i].strava_id = strava_id }
        first == CHOOSE i \in hit : \A j \in hit : i <= j
    IN  IF hit = {} THEN users
        ELSE [users EXCEPT ![first].access_token = access_token,
                           ![first].refresh_token = refresh_token,
                           ![first].token_expires_at = expires_at]

create_user(user_data) == Append(users, user_data)

\* ------------------------------------------------------------ the workers
NoInfo == [user_id |-> 0, username |-> ""]

InitProc ==
    [op |-> "none", pc |-> "idle",
     tok0 |-> NoJwt,          \* the session token the request arrived with
     user |-> NoUser,         \* the handler's in-memory user record
     jwt_expired |-> FALSE,
     resp |-> NoResp,         \* the last token endpoint response
     sent |-> NoneTok,        \* the refresh token of the last refresh request
     ident |-> NoInfo,        \* what validate_and_inject_user returned
     escaped |-> "none",      \* the exception that left validate_and_inject_user
     required |-> 0,          \* the status get_current_user raised (0: it returned)
     optional |-> 0,          \* the same for get_optional_user
     issuedAt |-> 0,          \* when the request issued a session token (0: never)
     access |-> NoneTok,      \* the bearer token of the gateway call
     stale |-> FALSE,         \* the middleware found the upstream token expired
     mwresp |-> NoResp,       \* the answer to the middleware's refresh request
     t0 |-> 0,                \* when the gateway call began
     nmw |-> 0,               \* refresh requests of the middleware,
     npre |-> 0,              \* of get_valid_access_token (and refresh_tokens),
     nforced |-> 0,           \* and of the gateway's 401 path
     nreq |-> 0,              \* resource requests sent
     first |-> "none",        \* the answers to the first and the last resource request
     last |-> "none",
     status |-> 0,            \* the HTTP status of the handler's response
     entry |-> NoUser,        \* the stored record when the gateway call began
     stored |-> 0]            \* the response number this request stored last (0: none)

T0 == JwtTtl

SessionToken(id, e, s) ==
    [user_id |-> id, username |-> UsernameOf(id), exp |-> e,
     iat |-> e - JwtTtl, sig |-> s]

Valid1 == SessionToken(1, T0 + JwtTtl, "ok")
Expired1 == SessionToken(1, T0 - 1, "ok")

\* The session tokens a client can present.
SessionTokens ==
    { SessionToken(id, e, "ok") : id \in {0, 1, 2}, e \in {T0 - 1, T0, T0 + JwtTtl} }
    \cup { SessionToken(1, T0 + JwtTtl, "bad") }

\* <<session token, bearer token>> of an arriving request.
Credentials ==
    { <<NoJwt, NoJwt>>, <<NoJwt, Valid1>> }
    \cup { <<t, NoJwt>> : t \in SessionTokens }

\* The credentials of the requests that go on into a handler.
HandlerCredentials ==
    { <<NoJwt, NoJwt>>, <<Valid1, NoJwt>>, <<Expired1, NoJwt>>,
      <<SessionToken(1, T0 + JwtTtl, "bad"), NoJwt>> }

User0(e, r) ==
    [strava_id |-> 1, username |-> UsernameOf(1), access_token |-> Cipher(0),
     refresh_token |-> r, token_expires_at |-> e]

\* No user yet; or athlete 1 with a stored token that is inside the buffer
\* (expired), or exactly at its edge, or expired with no usable refresh token.
InitUsers ==
    { <<>>,
      <<User0(T0 + BufferTime - 1, Cipher(0))>>,
      <<User0(T0 + BufferTime, Cipher(0))>>,
      <<User0(T0 + BufferTime - 1, OldCipher(0))>> }

\* ------------------------------------------------ the activity collection
ActivityIds == {101, 102}
ActivityNames == {"a", "b"}

\* A payload handed to sync_user_activities; identifier 0 is a missing one.
NoPayload == [strava_id |-> 0, strava_activity_id |-> 0, user_id |-> 0, name |-> ""]

Payloads ==
    { [strava_id |-> id, strava_activity_id |-> 0, user_id |-> u, name |-> n]
        : id \in ActivityIds \cup {0}, u \in AthleteIds, n \in ActivityNames }
    \cup { [strava_id |-> 0, strava_activity_id |-> 101, user_id |-> u, name |-> "a"]
        : u \in AthleteIds }

\* `activity.get("strava_activity_id") or activity.get("strava_id")`
ExternalId(activity) ==
    IF activity.strava_activity_id # 0 THEN activity.strava_activity_id
    ELSE activity.strava_id

\* Batches keyed by external activity id (what the upstream list delivers),
\* possibly with records that carry no identifier.
Batches ==
    { <<>> }
    \cup { <<a>> : a \in Payloads }
    \cup { s \in { <<a, b>> : a \in Payloads, b \in Payloads } :
               /\ ExternalId(s[1]) \in {0, 101}
               /\ ExternalId(s[2]) = 102
               /\ s[1].user_id = s[2].user_id }

\* The filter {"$or": [{strava_activity_id: id}, {strava_id: id}]}.
Matches(docs, id) ==
    { i \in 1..Len(docs) : docs[i].strava_activity_id = id \/ docs[i].strava_id = id }

SetFields(activity, id, t) ==
    [strava_id |-> id, strava_activity_id |-> id, user_id |-> activity.user_id,
     name |-> activity.name, created_at |-> t, updated_at |-> t]

\* An activity document without the field "insights".
NoInsight == [absent |-> TRUE]

\* The _id the store gives an inserted document: one no document has.
NewOid(docs) ==
    1 + (IF docs = <<>> THEN 0
         ELSE CHOOSE m \in { docs[i].oid : i \in 1..Len(docs) } :
                  \A i \in 1..Len(docs) : docs[i].oid <= m)

\* The document an upsert inserts: the fields of the $set, a fresh _id, and
\* no field "insights".
Inserted(docs, new) ==
    [oid |-> NewOid(docs), strava_id |-> new.strava_id,
     strava_activity_id |-> new.strava_activity_id, user_id |-> new.user_id,
     name |-> new.name, created_at |-> new.created_at,
     updated_at |-> new.updated_at, insights |-> NoInsight]

\* {"$set": new} on a stored document: the fields of `new` are replaced,
\* every other field (_id, insights) stays as it is.
SetOnDocument(doc, new) ==
    [doc EXCEPT !.strava_id = new.strava_id,
                !.strava_activity_id = new.strava_activity_id,
                !.user_id = new.user_id, !.name = new.name,
                !.created_at = new.created_at, !.updated_at = new.updated_at]

UpdateOneInsert(acc, activity, t) ==
    LET id == ExternalId(activity)
    IN  [docs |-> Append(acc.docs, Inserted(acc.docs, SetFields(activity, id, t))),
         upserted |-> acc.upserted + 1, modified |-> acc.modified]

\* UpdateOne(filter, {"$set": activity}, upsert=True) on the collection:
\* the first matching document is updated, or a new one is inserted.
UpdateOneUpsert(acc, activity, t) ==
    LET id == ExternalId(activity)
        hit == Matches(acc.docs, id)
        first == CHOOSE i \in hit : \A j \in hit : i <= j
        new == SetFields(activity, id, t)
    IN  IF hit = {}
        THEN [docs |-> Append(acc.docs, Inserted(acc.docs, new)),
              upserted |-> acc.upserted + 1, modified |-> acc.modified]
        ELSE [docs |-> [acc.docs EXCEPT ![first] = SetOnDocument(@, new)],
              upserted |-> acc.upserted,
              modified |-> acc.modified
                           + (IF SetOnDocument(acc.docs[first], new) # acc.docs[first]
                              THEN 1 ELSE 0)]

\* Lines 510-541: one operation per record that carries an identifier,
\* then the bulk write.
RECURSIVE BulkWrite(_, _, _)
BulkWrite(acc, batch, t) ==
    IF batch = <<>> THEN acc
    ELSE IF ExternalId(Head(batch)) = 0 THEN BulkWrite(acc, Tail(batch), t)
    ELSE BulkWrite(UpdateOneUpsert(acc, Head(batch), t), Tail(batch), t)

\* sync_user_activities: the collection after the call and the counts.
sync_user_activities(docs, batch, t) ==
    LET r == BulkWrite([docs |-> docs, upserted |-> 0, modified |-> 0], batch, t)
    IN  [docs |-> r.docs, created |-> r.upserted, updated |-> r.modified,
         total |-> r.upserted + r.modified]

RECURSIVE Remember(_, _)
Remember(f, batch) ==
    IF batch = <<>> THEN f
    ELSE LET id == ExternalId(Head(batch))
         IN  Remember(IF id = 0 THEN f ELSE [f EXCEPT ![id] = Head(batch)],
                      Tail(batch))

NoSync == [n |-> 0, batch |-> <<>>, created |-> 0, updated |-> 0, total |-> 0,
           prior |-> [id \in ActivityIds |-> NoPayload]]

InitSync ==
    /\ activities = <<>>
    /\ synced = [id \in ActivityIds |-> NoPayload]
    /\ lastSync = NoSync

\* One call of sync_user_activities with a batch of S.  Each call awaits a
\* round trip to the store, so the clock (datetime.utcnow(), line 519) has
\* moved on since the call before.
SyncBatch(S) ==
    /\ lastSync.n < MaxSyncCalls
    /\ \E batch \in S, d \in {1, 2} :
          LET r == sync_user_activities(activities, batch, now + d)
          IN  /\ now' = now + d
              /\ activities' = r.docs
              /\ synced' = Remember(synced, batch)
              /\ lastSync' = [n |-> lastSync.n + 1, batch |-> batch,
                              created |-> r.created, updated |-> r.updated,
                              total |-> r.total, prior |-> synced]
    /\ UNCHANGED <<users, session, bearer, attached, proc, ticks, issued,
                   delivered, writes, started, appVars>>

SyncCall == SyncBatch(Batches)

InitAuth(us) ==
    /\ users \in us
    /\ session = [p \in Procs |-> NoJwt]
    /\ bearer = [p \in Procs |-> NoJwt]
    /\ attached = [p \in Procs |-> NoUser]
    /\ proc = [p \in Procs |-> InitProc]
    /\ now = T0
    /\ ticks = 0
    /\ issued = 0
    /\ delivered = {}
    /\ writes = <<>>
    /\ started = 0

DbOutcomes == {"ok", "raise"}

\* The token endpoint's possible answers to the next request.
Answers ==
    IF issued < MaxIssued THEN TokenResponses(issued + 1, now)
    ELSE { [NoResp EXCEPT !.status = 400], NoResp }

Deliver(resp) ==
    /\ issued' = IF resp.status = 200 THEN issued + 1 ELSE issued
    /\ delivered' = IF resp.status = 200
                    THEN delivered \cup {<<resp.n, EncTriple(resp)>>} ELSE delivered

\* Python evaluates the arguments of update_user_tokens / create_user before
\* the call: datetime.fromtimestamp(None) raises TypeError.
ArgsRaise(resp) == resp.expires_at = NoExpiry

\* The call `await update_user_tokens(...)` every refresh path makes.
StoreTokens(p, resp, id) ==
    LET t == EncTriple(resp)
    IN  /\ users' = update_user_tokens(id, t.access_token, t.refresh_token,
                                       t.token_expires_at)
        /\ writes' = Append(writes, resp.n)

CanStart(p) ==
    /\ proc[p].pc \in {"idle", "done"}
    /\ started < MaxRequests

\* A request arrives at worker p with credentials c.
Arrive(p, op, pc, c) ==
    /\ started' = started + 1
    /\ session' = [session EXCEPT ![p] = c[1]]
    /\ bearer' = [bearer EXCEPT ![p] = c[2]]
    /\ attached' = [attached EXCEPT ![p] = NoUser]
    /\ proc' = [proc EXCEPT ![p] =
           [InitProc EXCEPT !.op = op, !.pc = pc, !.tok0 = c[1]]]
    /\ UNCHANGED <<users, now, ticks, issued, delivered, writes, syncVars, appVars>>

\* --------------------------------------------------------- the middleware
extract_jwt_from_session(sess, hdr) == IF sess # NoJwt THEN sess ELSE hdr

\* Lines 40-55 of validate_and_inject_user (and 150-161 of refresh_tokens):
\* strict validation, and on any HTTPException the decode that ignores expiry.
LenientDecode(jwt_token, t) ==
    { IF v.err = "none"
      THEN [ok |-> TRUE, user_id |-> v.payload.user_id, jwt_expired |-> FALSE]
      ELSE LET l == decode_jwt_token_allow_expired(jwt_token)
           IN  IF l.err # "none" \/ l.payload.user_id = 0
               THEN [ok |-> FALSE, user_id |-> 0, jwt_expired |-> TRUE]
               ELSE [ok |-> TRUE, user_id |-> l.payload.user_id, jwt_expired |-> TRUE]
      : v \in validate_jwt_token(jwt_token, t) }

\* The status get_current_user raises for a result of the middleware.
get_current_user(user_info) == IF user_info = NoInfo THEN 401 ELSE 0

get_optional_user(user_info) == 0

validate_and_inject_user_except_http(exc) ==
    IF exc = "HTTPException" THEN "none" ELSE exc

\* Lines 114-118: what leaves validate_and_inject_user of an exception
\* raised inside its try block.
validate_and_inject_user_except(exc) == "none"

\* The end of validate_and_inject_user: info is what the body returned
\* (NoInfo: None), exc the exception it raised instead ("none": it returned).
\* An exception that escapes ends the request with status 500.
MwDone(pr, info, exc) ==
    LET esc == validate_and_inject_user_except(exc)
        res == IF esc = "none" THEN info ELSE NoInfo
    IN  [pr EXCEPT !.ident = res, !.escaped = esc,
                   !.required = IF esc # "none" THEN 500 ELSE get_current_user(res),
                   !.optional = IF esc # "none" THEN 500 ELSE get_optional_user(res)]

\* The request goes on into its handler or ends.
MwNext(pr) ==
    IF pr.op = "sync" /\ pr.required = 0
    THEN [pr EXCEPT !.pc = "gw_read"]
    ELSE [pr EXCEPT !.pc = "done",
                    !.status = IF pr.op = "sync" THEN pr.required ELSE 0]

MwUnauth(p, pr, exc) ==
    /\ proc' = [proc EXCEPT ![p] = MwNext(MwDone(pr, NoInfo, exc))]
    /\ UNCHANGED <<session, attached>>

MwAuthorizeAlwaysRenew(p, pr, user) ==
    /\ session' = [session EXCEPT ![p] =
                       create_jwt_token(user.strava_id, user.username, now)]
    /\ attached' = [attached EXCEPT ![p] = user]
    /\ proc' = [proc EXCEPT ![p] = MwNext(MwDone(
           [pr EXCEPT !.issuedAt = IF pr.jwt_expired THEN now ELSE 0],
           [user_id |-> user.strava_id, username |-> user.username], "none"))]

MwAuthorizeNoRenewal(p, pr, user) ==
    /\ session' = session
    /\ attached' = [attached EXCEPT ![p] = user]
    /\ proc' = [proc EXCEPT ![p] = MwNext(MwDone(pr,
           [user_id |-> user.strava_id, username |-> user.username], "none"))]

\* Lines 92-112: renew the session token if the lenient path was taken,
\* attach the user, return the identity.
MwAuthorize(p, pr, user) ==
    /\ session' = IF pr.jwt_expired
                  THEN [session EXCEPT ![p] =
                            create_jwt_token(user.strava_id, user.username, now)]
                  ELSE session
    /\ attached' = [attached EXCEPT ![p] = user]
    /\ proc' = [proc EXCEPT ![p] = MwNext(MwDone(
           [pr EXCEPT !.issuedAt = IF pr.jwt_expired THEN now ELSE 0],
           [user_id |-> user.strava_id, username |-> user.username], "none"))]

\* A request for a route that only authenticates.
StartMw(p, creds) ==
    /\ CanStart(p)
    /\ \E c \in creds : Arrive(p, "mw", "mw_resolve", c)

\* POST /api/activities/sync: get_current_user, then the gateway call.
StartSync(p, creds) ==
    /\ CanStart(p)
    /\ \E c \in creds : Arrive(p, "sync", "mw_resolve", c)

MwResolveNoEmptyCheck(p) ==
    /\ proc[p].pc = "mw_resolve"
    /\ LET jwt_token == extract_jwt_from_session(session[p], bearer[p])
       IN  IF jwt_token = NoJwt THEN MwUnauth(p, proc[p], "none")
           ELSE \E d \in LenientDecode(jwt_token, now), db \in DbOutcomes :
                  LET user == get_user_by_strava_id(d.user_id)
                      pr == [proc[p] EXCEPT
                                !.jwt_expired = d.jwt_expired,
                                !.user = user,
                                !.stale = is_strava_token_expired(user.token_expires_at, now)]
                  IN  IF ~d.ok \/ user = NoUser \/ db = "raise"
                      THEN MwUnauth(p, proc[p], IF db = "raise" /\ d.ok THEN "Exception" ELSE "none")
                      ELSE IF is_strava_token_expired(user.token_expires_at, now)
                      THEN IF ~Truthy(decrypt_token(user.refresh_token))
                           THEN MwAuthorize(p, pr, user)
                           ELSE /\ proc' = [proc EXCEPT ![p] =
                                       [pr EXCEPT !.pc = "mw_refresh",
                                                  !.sent = decrypt_token(user.refresh_token)]]
                                /\ UNCHANGED <<session, attached>>
                      ELSE MwAuthorize(p, pr, user)
    /\ UNCHANGED <<users, bearer, now, ticks, issued, delivered, writes, started, syncVars, appVars>>

\* Lines 36-70: extract, decode, resolve the user, test the upstream expiry.
MwResolve(p) ==
    /\ proc[p].pc = "mw_resolve"
    /\ LET jwt_token == extract_jwt_from_session(session[p], bearer[p])
       IN  IF jwt_token = NoJwt THEN MwUnauth(p, proc[p], "none")
           ELSE \E d \in LenientDecode(jwt_token, now), db \in DbOutcomes :
                  LET user == get_user_by_strava_id(d.user_id)
                      pr == [proc[p] EXCEPT
                                !.jwt_expired = d.jwt_expired,
                                !.user = user,
                                !.stale = is_strava_token_expired(user.token_expires_at, now)]
                  IN  IF ~d.ok \/ user = NoUser \/ db = "raise"
                      THEN MwUnauth(p, proc[p], IF db = "raise" /\ d.ok THEN "Exception" ELSE "none")
                      ELSE IF is_strava_token_expired(user.token_expires_at, now)
                      THEN IF ~Truthy(decrypt_token(user.refresh_token))
                           THEN MwUnauth(p, pr, "none")
                           ELSE /\ proc' = [proc EXCEPT ![p] =
                                       [pr EXCEPT !.pc = "mw_refresh",
                                                  !.sent = decrypt_token(user.refresh_token)]]
                                /\ UNCHANGED <<session, attached>>
                      ELSE MwAuthorize(p, pr, user)
    /\ UNCHANGED <<users, bearer, now, ticks, issued, delivered, writes, started, syncVars, appVars>>

\* Lines 70-76, 86-90: the refresh request and its answer.
MwRefresh(p) ==
    /\ proc[p].pc = "mw_refresh"
    /\ \E resp \in Answers :
          LET pr == [proc[p] EXCEPT !.resp = resp, !.mwresp = resp, !.nmw = @ + 1]
              got == refresh_strava_access_token(resp)
          IN  /\ Deliver(resp)
              /\ IF got = "tokens" /\ ~ArgsRaise(resp)
                 THEN /\ proc' = [proc EXCEPT ![p] = [pr EXCEPT !.pc = "mw_store"]]
                      /\ UNCHANGED <<session, attached>>
                 ELSE MwUnauth(p, pr, IF got = "none" THEN "none" ELSE "Exception")
    /\ UNCHANGED <<users, bearer, now, ticks, writes, started, syncVars, appVars>>

\* Lines 77-82: update_user_tokens.
MwStore(p) ==
    /\ proc[p].pc = "mw_store"
    /\ \E db \in DbOutcomes :
          IF db = "raise"
          THEN /\ MwUnauth(p, proc[p], "Exception")
               /\ UNCHANGED <<users, writes>>
          ELSE /\ StoreTokens(p, proc[p].resp, proc[p].user.strava_id)
               /\ proc' = [proc EXCEPT ![p] = [@ EXCEPT !.pc = "mw_reread",
                                                        !.stored = proc[p].resp.n]]
               /\ UNCHANGED <<session, attached>>
    /\ UNCHANGED <<bearer, now, ticks, issued, delivered, started, syncVars, appVars>>

\* Lines 85, 92-112: read the user again and authorize.
MwReread(p) ==
    /\ proc[p].pc = "mw_reread"
    /\ \E db \in DbOutcomes :
          LET user == get_user_by_strava_id(proc[p].user.strava_id)
          IN  IF db = "raise" \/ user = NoUser
              THEN MwUnauth(p, proc[p], "Exception")
              ELSE MwAuthorize(p, [proc[p] EXCEPT !.user = user], user)
    /\ UNCHANGED <<users, bearer, now, ticks, issued, delivered, writes, started, syncVars, appVars>>

\* ------------------------------------------------------------ the gateway
\* What the upstream resource API can answer: a status, a timeout, or a
\* transport error.
ResourceAnswers == {"200", "401", "403", "404", "429", "500", "timeout", "error"}

\* BaseAPIClient.make_request / handle_response: the status of the
\* HTTPException raised for an answer (0: the JSON body is returned).
make_request(answer) ==
    CASE answer = "200" -> 0
      [] answer = "401" -> 401
      [] answer = "403" -> 403
      [] answer = "404" -> 404
      [] answer = "429" -> 429
      [] answer = "timeout" -> 408
      [] answer = "error" -> 500
      [] OTHER -> 500

\* sync_activities_from_strava, lines 394-397: an HTTPException keeps its
\* status, any other exception becomes 500.
GwFail(p, pr, status) ==
    proc' = [proc EXCEPT ![p] = [pr EXCEPT !.pc = "done", !.status = status]]

\* Lines 295-297 of the handler, then get_valid_access_token lines 30-32, 54.
GwRead(p) ==
    /\ proc[p].pc = "gw_read"
    /\ \E db \in DbOutcomes :
          LET user == get_user_by_strava_id(proc[p].ident.user_id)
              pr == [proc[p] EXCEPT !.user = user, !.entry = user, !.t0 = now]
          IN  IF db = "raise" THEN GwFail(p, proc[p], 500)
              ELSE IF user = NoUser THEN GwFail(p, pr, 404)
              ELSE IF is_strava_token_expired(user.token_expires_at, now)
              THEN proc' = [proc EXCEPT ![p] =
                       [pr EXCEPT !.pc = "gw_prerefresh",
                                  !.sent = decrypt_token(user.refresh_token)]]
              ELSE proc' = [proc EXCEPT ![p] =
                       [pr EXCEPT !.pc = "gw_request",
                                  !.access = decrypt_token(user.access_token)]]
    /\ UNCHANGED <<users, session, bearer, attached, now, ticks, issued,
                   delivered, writes, started, syncVars, appVars>>

\* get_valid_access_token lines 33-41, 50-51: the pre-emptive refresh.
GwPreRefresh(p) ==
    /\ proc[p].pc = "gw_prerefresh"
    /\ \E resp \in Answers :
          LET pr == [proc[p] EXCEPT !.resp = resp, !.npre = @ + 1]
          IN  /\ Deliver(resp)
              /\ IF refresh_strava_access_token(resp) = "tokens" /\ ~ArgsRaise(resp)
                 THEN proc' = [proc EXCEPT ![p] = [pr EXCEPT !.pc = "gw_prestore"]]
                 ELSE GwFail(p, pr, 500)
    /\ UNCHANGED <<users, session, bearer, attached, now, ticks, writes,
                   started, syncVars, appVars>>

GwPreStoreStale(p) ==
    /\ proc[p].pc = "gw_prestore"
    /\ \E db \in DbOutcomes :
          IF db = "raise"
          THEN /\ GwFail(p, proc[p], 500)
               /\ UNCHANGED <<users, writes>>
          ELSE /\ StoreTokens(p, proc[p].resp, proc[p].user.strava_id)
               /\ proc' = [proc EXCEPT ![p] =
                      [@ EXCEPT !.pc = "gw_request",
                                !.stored = proc[p].resp.n,
                                !.access = decrypt_token(proc[p].user.access_token)]]
    /\ UNCHANGED <<session, bearer, attached, now, ticks, issued, delivered,
                   started, syncVars, appVars>>

\* get_valid_access_token lines 42-49.
GwPreStore(p) ==
    /\ proc[p].pc = "gw_prestore"
    /\ \E db \in DbOutcomes :
          IF db = "raise"
          THEN /\ GwFail(p, proc[p], 500)
               /\ UNCHANGED <<users, writes>>
          ELSE /\ StoreTokens(p, proc[p].resp, proc[p].user.strava_id)
               /\ proc' = [proc EXCEPT ![p] =
                      [@ EXCEPT !.pc = "gw_request",
                                !.stored = proc[p].resp.n,
                                !.access = proc[p].resp.access_token]]
    /\ UNCHANGED <<session, bearer, attached, now, ticks, issued, delivered,
                   started, syncVars, appVars>>

GwAfterAnswerAnyFailure(pr, answer) ==
    LET st == make_request(answer)
    IN  IF st # 0 /\ pr.nreq = 1
        THEN [pr EXCEPT !.pc = "gw_refresh",
                        !.sent = decrypt_token(pr.user.refresh_token)]
        ELSE [pr EXCEPT !.pc = "done", !.status = IF st = 0 THEN 200 ELSE st]

GwAfterAnswerLoop(pr, answer) ==
    LET st == make_request(answer)
    IN  IF st = 401
        THEN [pr EXCEPT !.pc = "gw_refresh",
                        !.sent = decrypt_token(pr.user.refresh_token)]
        ELSE [pr EXCEPT !.pc = "done", !.status = IF st = 0 THEN 200 ELSE st]

\* get_user_activities lines 115-124 and 138-144: a 401 answer to the first
\* request leads to the forced refresh; any other failure, and any failure
\* of the retry, leaves the call.
GwAfterAnswer(pr, answer) ==
    LET st == make_request(answer)
    IN  IF st = 401 /\ pr.nreq = 1
        THEN [pr EXCEPT !.pc = "gw_refresh",
                        !.sent = decrypt_token(pr.user.refresh_token)]
        ELSE [pr EXCEPT !.pc = "done", !.status = IF st = 0 THEN 200 ELSE st]

\* The first request (lines 116-121) and the retry (lines 138-143).
GwRequest(p) ==
    /\ proc[p].pc \in {"gw_request", "gw_retry"}
    /\ \E answer \in ResourceAnswers :
          LET pr == [proc[p] EXCEPT !.nreq = @ + 1,
                                    !.first = IF proc[p].nreq = 0 THEN answer ELSE @,
                                    !.last = answer]
          IN  proc' = [proc EXCEPT ![p] = GwAfterAnswer(pr, answer)]
    /\ UNCHANGED <<users, session, bearer, attached, now, ticks, issued,
                   delivered, writes, started, syncVars, appVars>>

\* Lines 124-130: the forced refresh after a 401.
GwForcedRefresh(p) ==
    /\ proc[p].pc = "gw_refresh"
    /\ \E resp \in Answers :
          LET pr == [proc[p] EXCEPT !.resp = resp, !.nforced = @ + 1]
              got == refresh_strava_access_token(resp)
          IN  /\ Deliver(resp)
              /\ IF got = "tokens" /\ ~ArgsRaise(resp)
                 THEN proc' = [proc EXCEPT ![p] = [pr EXCEPT !.pc = "gw_store"]]
                 ELSE GwFail(p, pr, IF got = "none" THEN 401 ELSE 500)
    /\ UNCHANGED <<users, session, bearer, attached, now, ticks, writes,
                   started, syncVars, appVars>>

\* Lines 131-137.
GwForcedStore(p) ==
    /\ proc[p].pc = "gw_store"
    /\ \E db \in DbOutcomes :
          IF db = "raise"
          THEN /\ GwFail(p, proc[p], 500)
               /\ UNCHANGED <<users, writes>>
          ELSE /\ StoreTokens(p, proc[p].resp, proc[p].user.strava_id)
               /\ proc' = [proc EXCEPT ![p] =
                      [@ EXCEPT !.pc = "gw_retry",
                                !.stored = proc[p].resp.n,
                                !.access = proc[p].resp.access_token]]
    /\ UNCHANGED <<session, bearer, attached, now, ticks, issued, delivered,
                   started, syncVars, appVars>>

\* ------------------------------------------------- POST /api/auth/refresh
MnEnd(p, pr, status) ==
    proc' = [proc EXCEPT ![p] = [pr EXCEPT !.pc = "done", !.status = status]]

StartManual(p, creds) ==
    /\ CanStart(p)
    /\ \E c \in creds : Arrive(p, "manual", "mn_resolve", c)

\* refresh_tokens lines 144-187 and 221-237.
MnResolve(p) ==
    /\ proc[p].pc = "mn_resolve"
    /\ LET jwt_token == session[p]
       IN  IF jwt_token = NoJwt
           THEN MnEnd(p, proc[p], 401) /\ UNCHANGED session
           ELSE \E d \in LenientDecode(jwt_token, now), db \in DbOutcomes,
                   force_refresh \in BOOLEAN :
                  LET user == get_user_by_strava_id(d.user_id)
                      pr == [proc[p] EXCEPT !.jwt_expired = d.jwt_expired,
                                            !.user = user]
                  IN  IF ~d.ok \/ db = "raise" \/ user = NoUser
                      THEN MnEnd(p, proc[p], 401) /\ UNCHANGED session
                      ELSE IF force_refresh
                              \/ is_strava_token_expired(user.token_expires_at, now)
                      THEN IF ~Truthy(decrypt_token(user.refresh_token))
                           THEN MnEnd(p, pr, 401) /\ UNCHANGED session
                           ELSE /\ proc' = [proc EXCEPT ![p] =
                                       [pr EXCEPT !.pc = "mn_refresh",
                                                  !.sent = decrypt_token(user.refresh_token)]]
                                /\ UNCHANGED session
                      ELSE IF d.jwt_expired
                      THEN /\ session' = [session EXCEPT ![p] =
                                  create_jwt_token(user.strava_id, user.username, now)]
                           /\ MnEnd(p, [pr EXCEPT !.issuedAt = now], 200)
                      ELSE MnEnd(p, pr, 200) /\ UNCHANGED session
    /\ UNCHANGED <<users, bearer, attached, now, ticks, issued, delivered,
                   writes, started, syncVars, appVars>>

\* Lines 189-197, 219-220, 240-241.
MnRefresh(p) ==
    /\ proc[p].pc = "mn_refresh"
    /\ \E resp \in Answers :
          LET pr == [proc[p] EXCEPT !.resp = resp, !.npre = @ + 1]
          IN  /\ Deliver(resp)
              /\ IF refresh_strava_access_token(resp) = "tokens" /\ ~ArgsRaise(resp)
                 THEN proc' = [proc EXCEPT ![p] = [pr EXCEPT !.pc = "mn_store"]]
                 ELSE MnEnd(p, pr, 401)
    /\ UNCHANGED <<users, session, bearer, attached, now, ticks, writes,
                   started, syncVars, appVars>>

\* Lines 199-218.
MnStore(p) ==
    /\ proc[p].pc = "mn_store"
    /\ \E db \in DbOutcomes :
          IF db = "raise"
          THEN /\ MnEnd(p, proc[p], 401)
               /\ UNCHANGED <<users, writes, session>>
          ELSE /\ StoreTokens(p, proc[p].resp, proc[p].user.strava_id)
               /\ session' = [session EXCEPT ![p] =
                      create_jwt_token(proc[p].user.strava_id,
                                       proc[p].user.username, now)]
               /\ MnEnd(p, [proc[p] EXCEPT !.stored = proc[p].resp.n,
                                           !.issuedAt = now], 200)
    /\ UNCHANGED <<bearer, attached, now, ticks, issued, delivered, started,
                   syncVars, appVars>>

\* ---------------------------------------------------- the OAuth callback
\* GET /exchange_token with an authorization code.
StartCallback(p) ==
    /\ CanStart(p)
    /\ Arrive(p, "cb", "cb_exchange", <<session[p], NoJwt>>)

CbEnd(p, pr, status) ==
    proc' = [proc EXCEPT ![p] = [pr EXCEPT !.pc = "done", !.status = status]]

\* strava_callback lines 194-196 and exchange_code_for_tokens: the token
\* exchange, answered for an athlete of ids.
CbExchange(p, ids) ==
    /\ proc[p].pc = "cb_exchange"
    /\ \E resp \in Answers, id \in ids :
          LET pr == [proc[p] EXCEPT
                        !.resp = resp,
                        !.user = [NoUser EXCEPT !.strava_id = id,
                                                !.username = UsernameOf(id)]]
          IN  /\ Deliver(resp)
              /\ IF resp.status = 0 THEN CbEnd(p, proc[p], 500)
                 ELSE IF resp.status # 200 THEN CbEnd(p, proc[p], resp.status)
                 ELSE IF ArgsRaise(resp) THEN CbEnd(p, [proc[p] EXCEPT !.resp = resp], 500)
                 ELSE proc' = [proc EXCEPT ![p] = [pr EXCEPT !.pc = "cb_lookup"]]
    /\ UNCHANGED <<users, session, bearer, attached, now, ticks, writes,
                   started, syncVars, appVars>>

\* save_user_tokens lines 86-95: encrypt, look the athlete up.
CbLookup(p) ==
    /\ proc[p].pc = "cb_lookup"
    /\ \E db \in DbOutcomes :
          LET existing_user == get_user_by_strava_id(proc[p].user.strava_id)
          IN  IF db = "raise" THEN CbEnd(p, proc[p], 500)
              ELSE proc' = [proc EXCEPT ![p] =
                       [@ EXCEPT !.pc = IF existing_user # NoUser
                                        THEN "cb_update" ELSE "cb_create"]]
    /\ UNCHANGED <<users, session, bearer, attached, now, ticks, issued,
                   delivered, writes, started, syncVars, appVars>>

\* save_user_tokens lines 95-122: update the tokens of the user found, or
\* insert a new user record.
save_user_tokens_write(p) ==
    LET t == EncTriple(proc[p].resp)
        id == proc[p].user.strava_id
    IN  IF proc[p].pc = "cb_update"
        THEN StoreTokens(p, proc[p].resp, id)
        ELSE /\ users' = create_user(
                    [strava_id |-> id, username |-> proc[p].user.username,
                     access_token |-> t.access_token,
                     refresh_token |-> t.refresh_token,
                     token_expires_at |-> t.token_expires_at])
             /\ writes' = Append(writes, proc[p].resp.n)

\* The write, then strava_callback lines 201-215: the session token.
CbWrite(p) ==
    /\ proc[p].pc \in {"cb_update", "cb_create"}
    /\ \E db \in DbOutcomes :
          IF db = "raise"
          THEN /\ CbEnd(p, proc[p], 500)
               /\ UNCHANGED <<users, writes, session>>
          ELSE /\ save_user_tokens_write(p)
               /\ session' = [session EXCEPT ![p] =
                      create_jwt_token(proc[p].user.strava_id,
                                       proc[p].user.username, now)]
               /\ CbEnd(p, [proc[p] EXCEPT !.stored = proc[p].resp.n,
                                           !.issuedAt = now], 302)
    /\ UNCHANGED <<bearer, attached, now, ticks, issued, delivered, started,
                   syncVars, appVars>>

\* ------------------------------------------------------------- the clock
Tick ==
    /\ ticks < MaxTicks
    /\ \E d \in TickSteps : now' = now + d
    /\ ticks' = ticks + 1
    /\ UNCHANGED <<users, session, bearer, attached, proc, issued, delivered,
                   writes, started, syncVars, appVars>>

\* ------------------------------------------------------ the insight service
SummaryLimit == 280
TipsLimit == 3
TagsLimit == 5

\* Values of a parsed JSON reply: a string, a list, null, or a key that is
\* not there.
JStr(s) == [str |-> s]
JList(l) == [list |-> l]
JNull == [null |-> TRUE]
JMissing == [missing |-> TRUE]
IsStr(x) == "str" \in DOMAIN x
IsList(x) == "list" \in DOMAIN x
IsObject(x) == "summary" \in DOMAIN x

\* bool(x)
JTruthy(x) ==
    IF IsStr(x) THEN x.str # ""
    ELSE IF IsList(x) THEN x.list # <<>>
    ELSE FALSE

\* str(x) of a string or of None
PyStr(x) == IF IsStr(x) THEN x.str ELSE "None"

\* dict.get(key, default)
GetOr(x, default) == IF x = JMissing THEN default ELSE x

\* s[:n] of a string or a list
Take(s, n) == SubSeq(s, 1, IF Len(s) < n THEN Len(s) ELSE n)

RECURSIVE Repeat(_, _)
Repeat(s, n) == IF n = 0 THEN "" ELSE s \o Repeat(s, n - 1)

RECURSIVE lstrip(_)
lstrip(s) ==
    IF Len(s) > 0 /\ SubSeq(s, 1, 1) = " " THEN lstrip(SubSeq(s, 2, Len(s))) ELSE s

RECURSIVE rstrip(_)
rstrip(s) ==
    IF Len(s) > 0 /\ SubSeq(s, Len(s), Len(s)) = " "
    THEN rstrip(SubSeq(s, 1, Len(s) - 1)) ELSE s

\* str.strip()
strip(s) == rstrip(lstrip(s))

LowerChar(c) ==
    CASE c = "E" -> "e" [] c = "N" -> "n" [] c = "D" -> "d" [] c = "U" -> "u"
      [] c = "R" -> "r" [] c = "A" -> "a" [] c = "C" -> "c" [] OTHER -> c

\* str.lower()
RECURSIVE lower(_)
lower(s) ==
    IF s = "" THEN "" ELSE LowerChar(SubSeq(s, 1, 1)) \o lower(SubSeq(s, 2, Len(s)))

\* `raw.get(key) or []`, then a value that is not a list wrapped into one.
AsList(x) ==
    IF IsList(x) THEN x.list
    ELSE IF JTruthy(x) THEN <<JStr(PyStr(x))>> ELSE <<>>

\* [str(t).strip() for t in items if t]
RECURSIVE StripAll(_)
StripAll(items) ==
    IF items = <<>> THEN <<>>
    ELSE IF JTruthy(Head(items))
         THEN <<strip(PyStr(Head(items)))>> \o StripAll(Tail(items))
         ELSE StripAll(Tail(items))

RECURSIVE LowerAll(_)
LowerAll(items) ==
    IF items = <<>> THEN <<>> ELSE <<lower(Head(items))>> \o LowerAll(Tail(items))

\* datetime.utcnow(): the reading down to the store's resolution, and the
\* part of it below that resolution.
SubMillis == {0, 1}
utcnow(t, f) == [at |-> t, sub |-> f]

\* A datetime as the store keeps it (BSON dates have millisecond resolution).
StoredDatetime(d) == [d EXCEPT !.sub = 0]

coerce_untruncated(raw, at) ==
    [summary |-> strip(PyStr(GetOr(raw.summary, JStr("")))),
     coach_tips |-> StripAll(AsList(raw.coach_tips)),
     tags |-> LowerAll(StripAll(AsList(raw.tags))),
     model |-> strip(PyStr(GetOr(raw.model, JStr("")))),
     generated_at |-> at]

\* _coerce_insight_payload of a dict; model "" stands for None.
coerce_insight_payload(raw, at) ==
    [summary |-> Take(strip(PyStr(GetOr(raw.summary, JStr("")))), SummaryLimit),
     coach_tips |-> Take(StripAll(AsList(raw.coach_tips)), TipsLimit),
     tags |-> Take(LowerAll(StripAll(AsList(raw.tags))), TagsLimit),
     model |-> strip(PyStr(GetOr(raw.model, JStr("")))),
     generated_at |-> at]

\* The insights sub-document as the store keeps it.
StoredInsight(payload) ==
    [payload EXCEPT !.generated_at = StoredDatetime(@)]

\* What AIClient.generate_json returns when the provider call fails, and
\* with `mock:` as its model when no API key is configured.
FallbackReply(model) ==
    [summary |-> JStr("Solid session focusing on aerobic base."),
     coach_tips |-> JList(<<JStr("Keep cadence smooth and controlled."),
                            JStr("Fuel earlier for longer efforts.")>>),
     tags |-> JList(<<JStr("endurance")>>),
     model |-> JStr(model)]

\* Replies of the provider that parse to a JSON object: one within the
\* bounds, one over every bound, one with values of other types.
ObjectReplies ==
    { [summary |-> JStr("Steady run. "),
       coach_tips |-> JList(<<JStr("Rest.")>>),
       tags |-> JList(<<JStr("Endurance"), JStr("ENDURANCE")>>),
       model |-> JMissing],
      [summary |-> JStr(" " \o Repeat("0123456789", 40)),
       coach_tips |-> JList(<<JStr("a"), JStr(""), JStr("b"), JStr("a"),
                              JStr(" c "), JStr("d")>>),
       tags |-> JList(<<JStr("Race"), JStr("race"), JNull, JStr(" Run"),
                        JStr("A"), JStr("c"), JStr("D"), JStr("e")>>),
       model |-> JStr("m")],
      [summary |-> JNull, coach_tips |-> JStr("Rest."), tags |-> JNull,
       model |-> JMissing] }

\* Every way a call of the provider can end: a reply that parses to an
\* object, a reply that parses to something else (a list, null), a reply
\* that does not parse, an exception or timeout; and the configuration
\* without an API key, in which no provider is called.
Outcomes ==
    { [kind |-> "object", body |-> r] : r \in ObjectReplies }
    \cup { [kind |-> "other", body |-> JList(<<>>)],
           [kind |-> "other", body |-> JNull],
           [kind |-> "unparseable"], [kind |-> "raise"], [kind |-> "nokey"] }

NoOutcome == [kind |-> "none"]

\* AIClient.generate_json: json.loads(content) of a reply, the fallback
\* when the try block raises.
generate_json(o) ==
    CASE o.kind = "nokey" -> FallbackReply("mock:openai:gpt-4o-mini")
      [] o.kind \in {"raise", "unparseable"} -> FallbackReply("fallback:openai:gpt-4o-mini")
      [] OTHER -> o.body

\* Identifiers a caller names an activity by: the 24 hex digits of an
\* ObjectId, a decimal number, or (inside the service) an ObjectId.
Hex(n) == [hex |-> n]
Num(n) == [num |-> n]
Oid(n) == [oid |-> n]

NoDoc == [nodoc |-> TRUE]
NoBody == [nobody |-> TRUE]

FirstOf(docs, hit) ==
    IF hit = {} THEN NoDoc
    ELSE docs[CHOOSE i \in hit : \A j \in hit : i <= j]

find_activity_any_user(docs, user_id, identifier) ==
    IF "oid" \in DOMAIN identifier \/ "hex" \in DOMAIN identifier
    THEN LET n == IF "oid" \in DOMAIN identifier THEN identifier.oid
                  ELSE identifier.hex
         IN  FirstOf(docs, { i \in 1..Len(docs) : docs[i].oid = n })
    ELSE FirstOf(docs, { i \in 1..Len(docs) :
                           \/ docs[i].strava_activity_id = identifier.num
                           \/ docs[i].strava_id = identifier.num })

\* InsightService._find_activity_for_user: every query carries user_id.
find_activity_for_user(docs, user_id, identifier) ==
    IF "oid" \in DOMAIN identifier \/ "hex" \in DOMAIN identifier
    THEN LET n == IF "oid" \in DOMAIN identifier THEN identifier.oid
                  ELSE identifier.hex
         IN  FirstOf(docs, { i \in 1..Len(docs) :
                               docs[i].oid = n /\ docs[i].user_id = user_id })
    ELSE FirstOf(docs, { i \in 1..Len(docs) :
                           /\ docs[i].user_id = user_id
                           /\ \/ docs[i].strava_activity_id = identifier.num
                              \/ docs[i].strava_id = identifier.num })

\* get_activity_by_id: {"_id": activity_id} with the path parameter, a
\* string, which no ObjectId equals.
get_activity_by_id(docs, activity_id) ==
    FirstOf(docs, { i \in 1..Len(docs) : Oid(docs[i].oid) = activity_id })

\* get_activity_by_strava_id: the $or filter, no owner in it.
get_activity_by_strava_id(docs, strava_id) ==
    FirstOf(docs, Matches(docs, strava_id))

NoCall ==
    [op |-> "none", pc |-> "idle", user_id |-> 0, ident |-> Num(0),
     force |-> FALSE, activity |-> NoDoc, outcome |-> NoOutcome,
     payload |-> NoInsight, status |-> 0, body |-> NoBody, invoked |-> 0,
     wrote |-> FALSE, limit |-> 0, selected |-> <<>>, next |-> 0,
     generated |-> 0, failed |-> <<>>, seen |-> 0]

Idents == { Hex(1), Num(101) }

\* The insights sub-document a generation stored earlier.
CachedInsight ==
    StoredInsight(coerce_insight_payload(FallbackReply("fallback:openai:gpt-4o-mini"),
                                         utcnow(T0 - 1, 0)))

Doc(oid, ext, owner, start, ins) ==
    [oid |-> oid, strava_id |-> ext, strava_activity_id |-> ext,
     user_id |-> owner, name |-> "a", created_at |-> T0 - 1,
     updated_at |-> T0 - 1, insights |-> ins, start_date |-> start]

UserOf(id) ==
    [strava_id |-> id, username |-> UsernameOf(id), access_token |-> Cipher(0),
     refresh_token |-> Cipher(0), token_expires_at |-> T0 + JwtTtl]

InitApp ==
    /\ icall = [p \in Procs |-> NoCall]
    /\ history = <<>>
    /\ aiCalls = 0
    /\ report = [op |-> "none"]

\* The entry a returned call leaves in the history.
Entry(c) ==
    [op |-> c.op, user_id |-> c.user_id, ident |-> c.ident, force |-> c.force,
     status |-> c.status, body |-> c.body, outcome |-> c.outcome,
     invoked |-> c.invoked, wrote |-> c.wrote, limit |-> c.limit,
     selected |-> c.selected, generated |-> c.generated, failed |-> c.failed,
     seen |-> c.seen]

\* The route's answer: 200 with the payload, 404 for a ValueError, 500 for
\* any other exception (ai_routes.py lines 23-33, 41-51).
Return(p, c, status, body) ==
    LET d == [c EXCEPT !.pc = "done", !.status = status, !.body = body]
    IN  /\ icall' = [icall EXCEPT ![p] = d]
        /\ history' = Append(history, Entry(d))

\* {"generated": generated, "requested": len(to_update)}
BulkResult(generated, to_update) ==
    [generated |-> generated, requested |-> Len(to_update)]

\* generate_activity_insights ends: the route answers, or the loop of
\* generate_recent_activities_bulk goes on to its next activity.
EndGenerate(p, c, status, body) ==
    IF c.op = "bulk"
    THEN LET d == [c EXCEPT !.next = @ + 1,
                            !.generated = IF status = 200 THEN @ + 1 ELSE @,
                            !.failed = IF status = 200 THEN @
                                       ELSE Append(@, c.selected[c.next]),
                            !.ident = IF c.next < Len(c.selected)
                                      THEN Oid(c.selected[c.next + 1]) ELSE @,
                            !.activity = NoDoc, !.payload = NoInsight]
         IN  IF c.next < Len(c.selected)
             THEN /\ icall' = [icall EXCEPT ![p] = [d EXCEPT !.pc = "find"]]
                  /\ UNCHANGED history
             ELSE Return(p, d, 200, BulkResult(d.generated, d.selected))
    ELSE Return(p, c, status, body)

Idle(p) == icall[p].op = "none"

\* The locals of a call that starts now; `seen` is the number of calls that
\* have returned before it started.
NewCall == [NoCall EXCEPT !.seen = Len(history)]

\* POST /api/insights/activity/{activity_id}/generate?force=
StartGenerate(p, callers, idents) ==
    /\ Idle(p)
    /\ \E u \in callers, id \in idents, force \in BOOLEAN :
          icall' = [icall EXCEPT ![p] =
                      [NewCall EXCEPT !.op = "generate", !.pc = "find",
                                     !.user_id = u, !.ident = id, !.force = force]]
    /\ UNCHANGED <<users, session, bearer, attached, proc, now, ticks, issued,
                   delivered, writes, started, syncVars, history, aiCalls, report>>

\* GET /api/insights/activity/{activity_id}
StartFetch(p, callers, idents) ==
    /\ Idle(p)
    /\ \E u \in callers, id \in idents :
          icall' = [icall EXCEPT ![p] =
                      [NewCall EXCEPT !.op = "fetch", !.pc = "find",
                                     !.user_id = u, !.ident = id]]
    /\ UNCHANGED <<users, session, bearer, attached, proc, now, ticks, issued,
                   delivered, writes, started, syncVars, history, aiCalls, report>>

\* Lines 96-102: the owner-scoped lookup, then the cached insight unless
\* the caller forces a generation.
InsFind(p) ==
    /\ icall[p].pc = "find"
    /\ LET c == icall[p]
           activity == find_activity_for_user(activities, c.user_id, c.ident)
       IN  IF activity = NoDoc
           THEN EndGenerate(p, c, 404, NoBody)
           ELSE IF ~c.force /\ activity.insights # NoInsight
                THEN EndGenerate(p, c, 200, activity.insights)
                ELSE /\ icall' = [icall EXCEPT ![p] =
                                    [c EXCEPT !.pc = "user", !.activity = activity]]
                     /\ UNCHANGED history
    /\ UNCHANGED <<users, session, bearer, attached, proc, now, ticks, issued,
                   delivered, writes, started, syncVars, aiCalls, report>>

\* Lines 104-106.
InsUser(p) ==
    /\ icall[p].pc = "user"
    /\ IF get_user_by_strava_id(icall[p].user_id) = NoUser
       THEN EndGenerate(p, icall[p], 404, NoBody)
       ELSE /\ icall' = [icall EXCEPT ![p].pc = "ai"]
            /\ UNCHANGED history
    /\ UNCHANGED <<users, session, bearer, attached, proc, now, ticks, issued,
                   delivered, writes, started, syncVars, aiCalls, report>>

\* Lines 112-113: the provider call, then the normalisation of what it
\* returned; raw.get on a value that is not a dict raises AttributeError.
InsGenerate(p, outcomes) ==
    /\ icall[p].pc = "ai"
    /\ aiCalls' = aiCalls + 1
    /\ \E o \in outcomes, f \in SubMillis :
          LET c == [icall[p] EXCEPT !.outcome = o, !.invoked = @ + 1]
              raw == generate_json(o)
          IN  IF ~IsObject(raw)
              THEN EndGenerate(p, c, 500, NoBody)
              ELSE /\ icall' = [icall EXCEPT ![p] =
                                  [c EXCEPT !.pc = "store",
                                            !.payload = coerce_insight_payload(raw, utcnow(now, f))]]
                   /\ UNCHANGED history
    /\ UNCHANGED <<users, session, bearer, attached, proc, now, ticks, issued,
                   delivered, writes, started, syncVars, report>>

\* update_one({"_id": ...}, {"$set": {"insights": payload, ...}})
SetInsights(docs, oid, payload, t) ==
    [i \in 1..Len(docs) |->
        IF docs[i].oid = oid
        THEN [docs[i] EXCEPT !.insights = StoredInsight(payload), !.updated_at = t]
        ELSE docs[i]]

\* Lines 115-120: the write, and the payload as it was built in memory.
InsStore(p) ==
    /\ icall[p].pc = "store"
    /\ LET c == icall[p]
       IN  /\ activities' = SetInsights(activities, c.activity.oid, c.payload, now)
           /\ EndGenerate(p, [c EXCEPT !.wrote = TRUE], 200, c.payload)
    /\ UNCHANGED <<users, session, bearer, attached, proc, now, ticks, issued,
                   delivered, writes, started, synced, lastSync, aiCalls, report>>

\* GET /api/activities/{activity_id}: 404 without a user or an activity,
\* 403 for an activity of another user, else the activity.
LookupById(p) ==
    /\ Idle(p)
    /\ \E u \in AthleteIds, id \in Idents :
          LET c == [NewCall EXCEPT !.op = "get_activity", !.user_id = u, !.ident = id]
              activity == get_activity_by_id(activities, id)
          IN  IF get_user_by_strava_id(u) = NoUser \/ activity = NoDoc
              THEN Return(p, c, 404, NoBody)
              ELSE IF activity.user_id # u
                   THEN Return(p, c, 403, NoBody)
                   ELSE Return(p, c, 200, activity)
    /\ UNCHANGED <<users, session, bearer, attached, proc, now, ticks, issued,
                   delivered, writes, started, syncVars, aiCalls, report>>

\* GET /api/activities/strava/{strava_id}
LookupByStravaId(p) ==
    /\ Idle(p)
    /\ \E u \in AthleteIds, id \in ActivityIds :
          LET c == [NewCall EXCEPT !.op = "get_activity_by_strava_id",
                                  !.user_id = u, !.ident = Num(id)]
              activity == get_activity_by_strava_id(activities, id)
          IN  IF get_user_by_strava_id(u) = NoUser \/ activity = NoDoc
              THEN Return(p, c, 404, NoBody)
              ELSE IF activity.user_id # u
                   THEN Return(p, c, 403, NoBody)
                   ELSE Return(p, c, 200, activity)
    /\ UNCHANGED <<users, session, bearer, attached, proc, now, ticks, issued,
                   delivered, writes, started, syncVars, aiCalls, report>>

\* GET /api/insights/summary: generate_period_summary up to its provider
\* call (lines 138-150).
StartSummary(p) ==
    /\ Idle(p)
    /\ \E u \in AthleteIds :
          LET c == [NewCall EXCEPT !.op = "summary", !.user_id = u]
          IN  IF get_user_by_strava_id(u) = NoUser
              THEN Return(p, c, 500, NoBody)
              ELSE /\ icall' = [icall EXCEPT ![p] = [c EXCEPT !.pc = "summary"]]
                   /\ UNCHANGED history
    /\ UNCHANGED <<users, session, bearer, attached, proc, now, ticks, issued,
                   delivered, writes, started, syncVars, aiCalls, report>>

\* Lines 151-152: nothing is stored.
SummaryGenerate(p) ==
    /\ icall[p].pc = "summary"
    /\ aiCalls' = aiCalls + 1
    /\ \E o \in Outcomes, f \in SubMillis :
          LET c == [icall[p] EXCEPT !.outcome = o, !.invoked = @ + 1]
              raw == generate_json(o)
          IN  IF ~IsObject(raw)
              THEN Return(p, c, 500, NoBody)
              ELSE Return(p, c, 200, coerce_insight_payload(raw, utcnow(now, f)))
    /\ UNCHANGED <<users, session, bearer, attached, proc, now, ticks, issued,
                   delivered, writes, started, syncVars, report>>

WithOrWithoutInsights(docs, u) ==
    { i \in 1..Len(docs) : docs[i].user_id = u }

\* find({"user_id": u, "insights": {"$exists": False}})
WithoutInsights(docs, u) ==
    { i \in 1..Len(docs) : docs[i].user_id = u /\ docs[i].insights = NoInsight }

\* .sort("start_date", -1).limit(limit): the _ids of the first `limit`
\* documents in descending start_date; the store orders equal dates as it
\* likes.
SortedLimited(docs, hit, limit) ==
    LET k == IF Cardinality(hit) < limit THEN Cardinality(hit) ELSE limit
    IN  { [j \in 1..k |-> docs[s[j]].oid] :
            s \in { s \in [1..k -> hit] :
                      /\ \A a, b \in 1..k : a < b =>
                            /\ s[a] # s[b]
                            /\ docs[s[a]].start_date >= docs[s[b]].start_date
                      /\ \A i \in hit :
                            (\A a \in 1..k : s[a] # i) =>
                            \A a \in 1..k : docs[s[a]].start_date >= docs[i].start_date } }

Limits == 1..MaxLimit

\* POST /api/insights/bulk/recent: the selection (lines 123-127); an empty
\* selection returns at once.
StartBulk(p) ==
    /\ Idle(p)
    /\ \E u \in AthleteIds, limit \in Limits :
          \E sel \in SortedLimited(activities, WithoutInsights(activities, u), limit) :
              LET c == [NewCall EXCEPT !.op = "bulk", !.user_id = u, !.limit = limit,
                                      !.selected = sel, !.next = 1]
              IN  IF sel = <<>>
                  THEN Return(p, c, 200, BulkResult(0, sel))
                  ELSE /\ icall' = [icall EXCEPT ![p] =
                                      [c EXCEPT !.pc = "find", !.ident = Oid(sel[1])]]
                       /\ UNCHANGED history
    /\ UNCHANGED <<users, session, bearer, attached, proc, now, ticks, issued,
                   delivered, writes, started, syncVars, aiCalls, report>>

\* ------------------------------------------------ milestones and accounts
MilestoneIds == {"m1", "m2"}
MilestoneTitles == {"t1", "t2"}

\* The body of a milestone request (models/user.py, Milestone): the id is a
\* required field the client sends.
Milestones == { [id |-> i, title |-> t] : i \in MilestoneIds, t \in MilestoneTitles }

\* A user document with its milestone list.
AccountUser(id) ==
    [strava_id |-> id, username |-> UsernameOf(id), access_token |-> Cipher(0),
     refresh_token |-> Cipher(0), token_expires_at |-> T0 + JwtTtl,
     milestones |-> <<>>]

FirstUser(docs, strava_id) ==
    CHOOSE i \in 1..Len(docs) :
        /\ docs[i].strava_id = strava_id
        /\ \A j \in 1..(i - 1) : docs[j].strava_id # strava_id

HasUser(docs, strava_id) == \E i \in 1..Len(docs) : docs[i].strava_id = strava_id

\* update_one({"strava_id": id}, {"$push": {"milestones": milestone}, ...})
add_user_milestone(docs, strava_id, milestone) ==
    IF ~HasUser(docs, strava_id) THEN docs
    ELSE [docs EXCEPT ![FirstUser(docs, strava_id)].milestones = Append(@, milestone)]

\* update_one({"strava_id": id, "milestones.id": mid},
\*            {"$set": {"milestones.$": {**data, "id": mid}, ...}}):
\* the first element with that id, in the first document that has one.
update_user_milestone(docs, strava_id, milestone_id, milestone_data) ==
    LET hit == { i \in 1..Len(docs) :
                   /\ docs[i].strava_id = strava_id
                   /\ \E k \in 1..Len(docs[i].milestones) :
                         docs[i].milestones[k].id = milestone_id }
        first == CHOOSE i \in hit : \A j \in hit : i <= j
        at == CHOOSE k \in 1..Len(docs[first].milestones) :
                  /\ docs[first].milestones[k].id = milestone_id
                  /\ \A l \in 1..(k - 1) : docs[first].milestones[l].id # milestone_id
    IN  IF hit = {} THEN docs
        ELSE [docs EXCEPT ![first].milestones[at] =
                              [milestone_data EXCEPT !.id = milestone_id]]

\* update_one({"strava_id": id}, {"$pull": {"milestones": {"id": mid}}, ...})
delete_user_milestone(docs, strava_id, milestone_id) ==
    LET Kept(m) == m.id # milestone_id
    IN  IF ~HasUser(docs, strava_id) THEN docs
        ELSE [docs EXCEPT ![FirstUser(docs, strava_id)].milestones =
                              SelectSeq(@, Kept)]

\* users_collection.delete_one({"strava_id": id})
delete_user(docs, strava_id) ==
    IF ~HasUser(docs, strava_id) THEN docs
    ELSE LET i == FirstUser(docs, strava_id)
         IN  SubSeq(docs, 1, i - 1) \o SubSeq(docs, i + 1, Len(docs))

\* activities_collection.delete_many({"user_id": user_id})
delete_user_activities(docs, user_id) ==
    LET Kept(a) == a.user_id # user_id
    IN  SelectSeq(docs, Kept)

\* POST /api/user/milestones
CreateMilestone ==
    \E u \in AthleteIds, m \in Milestones :
        /\ HasUser(users, u)
        /\ Len(users[FirstUser(users, u)].milestones) < MaxMilestones
        /\ users' = add_user_milestone(users, u, m)
        /\ report' = [op |-> "create_milestone", user_id |-> u, id |-> m.id]
        /\ UNCHANGED <<session, bearer, attached, proc, now, ticks, issued,
                       delivered, writes, started, syncVars, icall, history, aiCalls>>

\* PUT /api/user/milestones/{milestone_id}
UpdateMilestone ==
    \E u \in AthleteIds, id \in MilestoneIds, m \in Milestones :
        /\ HasUser(users, u)
        /\ users' = update_user_milestone(users, u, id, m)
        /\ report' = [op |-> "update_milestone", user_id |-> u, id |-> id]
        /\ UNCHANGED <<session, bearer, attached, proc, now, ticks, issued,
                       delivered, writes, started, syncVars, icall, history, aiCalls>>

\* DELETE /api/user/milestones/{milestone_id}
DeleteMilestone ==
    \E u \in AthleteIds, id \in MilestoneIds :
        /\ HasUser(users, u)
        /\ users' = delete_user_milestone(users, u, id)
        /\ report' = [op |-> "delete_milestone", user_id |-> u, id |-> id]
        /\ UNCHANGED <<session, bearer, attached, proc, now, ticks, issued,
                       delivered, writes, started, syncVars, icall, history, aiCalls>>

\* delete_user: the user document goes, nothing else is touched.
DeleteUser ==
    \E u \in AthleteIds :
        /\ HasUser(users, u)
        /\ users' = delete_user(users, u)
        /\ report' = [op |-> "delete_user", user_id |-> u, id |-> ""]
        /\ UNCHANGED <<session, bearer, attached, proc, now, ticks, issued,
                       delivered, writes, started, syncVars, icall, history, aiCalls>>

\* delete_user_activities: a function of its own that nothing calls from
\* delete_user.
DeleteUserActivities ==
    \E u \in AthleteIds :
        /\ \E i \in 1..Len(activities) : activities[i].user_id = u
        /\ activities' = delete_user_activities(activities, u)
        /\ report' = [op |-> "delete_user_activities", user_id |-> u, id |-> ""]
        /\ UNCHANGED <<users, session, bearer, attached, proc, now, ticks, issued,
                       delivered, writes, started, synced, lastSync, icall,
                       history, aiCalls>>

\* ------------------------------------------------------------ aggregation
\* A numeric field that is null or not there, a filter that is not given.
Missing == 0 - 1
NoDate == 0 - 1
NoType == ""

HoursPerDay == 24
DaysPerWeek == 7

\* Start times in hours since 2025-01-01T00:00Z, a Wednesday: Friday
\* 31 January 10:00 and 23:00, Saturday 1 February 01:00, Sunday 2 February
\* 00:00.
Jan31Morning == 30 * HoursPerDay + 10
Jan31Night == 30 * HoursPerDay + 23
Feb1 == 31 * HoursPerDay + 1
Feb2 == 32 * HoursPerDay

\* The fields of an activity document the pipelines read.
Measured(u, type, start, distance, time, elevation, calories) ==
    [user_id |-> u, activity_type |-> type, start_date |-> start,
     distance |-> distance, moving_time |-> time,
     total_elevation_gain |-> elevation, calories |-> calories]

MeasuredActivities ==
    { Measured(1, "Run", Jan31Morning, 1000, 600, 10, 100),
      Measured(1, "Run", Jan31Night, Missing, 300, Missing, Missing),
      Measured(1, "Ride", Feb1, 250, 60, 5, Missing),
      Measured(1, "Run", Feb2, 1000, 600, 0, 50),
      Measured(2, "Run", Jan31Morning, 7, 7, 7, 7) }

RECURSIVE SeqsUpTo(_, _)
SeqsUpTo(S, n) ==
    IF n = 0 THEN { <<>> }
    ELSE SeqsUpTo(S, n - 1)
         \cup { Append(s, x) : s \in { t \in SeqsUpTo(S, n - 1) : Len(t) = n - 1 }, x \in S }

\* {"$match": match}: user_id, and the filters that were given.
Match(docs, user_id, activity_type, after, before) ==
    LET Hit(a) == /\ a.user_id = user_id
                  /\ activity_type # NoType => a.activity_type = activity_type
                  /\ after # NoDate => a.start_date >= after
                  /\ before # NoDate => a.start_date <= before
    IN  SelectSeq(docs, Hit)

\* What $sum adds for a field: its value, nothing when it is null or not
\* there (for calories, $ifNull puts the 0).
Numeric(x) == IF x = Missing THEN 0 ELSE x

Metric(a, field) ==
    CASE field = "distance" -> Numeric(a.distance)
      [] field = "time" -> Numeric(a.moving_time)
      [] field = "elevation" -> Numeric(a.total_elevation_gain)
      [] field = "calories" -> Numeric(a.calories)
      [] field = "count" -> 1

RECURSIVE SumField(_, _)
SumField(docs, field) ==
    IF docs = <<>> THEN 0
    ELSE Metric(Head(docs), field) + SumField(Tail(docs), field)

RECURSIVE Gcd(_, _)
Gcd(a, b) == IF b = 0 THEN a ELSE Gcd(b, a % b)

\* a / b, exactly, in lowest terms.
Quotient(a, b) == [num |-> a \div Gcd(a, b), den |-> b \div Gcd(a, b)]

Zero == [num |-> 0, den |-> 1]

AverageFloor(total, count) ==
    IF count > 0 THEN [num |-> total \div count, den |-> 1] ELSE Zero

\* `total / count if count > 0 else 0`
Average(total, count) == IF count > 0 THEN Quotient(total, count) ELSE Zero

\* The $group stage with its totals, and the averages computed from it; no
\* group at all (and the zero record) when nothing matched.
Totals(docs) ==
    [total_activities |-> Len(docs),
     total_distance |-> SumField(docs, "distance"),
     total_time |-> SumField(docs, "time"),
     total_elevation |-> SumField(docs, "elevation"),
     total_calories |-> SumField(docs, "calories"),
     average_distance |-> Average(SumField(docs, "distance"), Len(docs)),
     average_time |-> Average(SumField(docs, "time"), Len(docs))]

get_user_activity_stats(docs, user_id, activity_type, after, before) ==
    Totals(Match(docs, user_id, activity_type, after, before))

\* The activity types in the order {"$sort": {"_id": 1}} gives them.
SportOrder == <<"Ride", "Run">>

OfSport(docs, type) ==
    LET Hit(a) == a.activity_type = type
    IN  SelectSeq(docs, Hit)

RECURSIVE BySport(_, _)
BySport(docs, types) ==
    IF types = <<>> THEN <<>>
    ELSE LET group == OfSport(docs, Head(types))
         IN  (IF group = <<>> THEN <<>>
              ELSE << [activity_type |-> Head(types), stats |-> Totals(group)] >>)
             \o BySport(docs, Tail(types))

get_analytics_summary(docs, user_id, after, before) ==
    LET matched == Match(docs, user_id, NoType, after, before)
    IN  [summary |-> Totals(matched), by_sport |-> BySport(matched, SportOrder)]

\* Days before the first of each month of 2025.
MonthStarts == <<0, 31, 59, 90, 120, 151, 181, 212, 243, 273, 304, 334>>

\* {"$dateTrunc": {"date": ..., "unit": unit, "timezone": "UTC"}}; weeks
\* start on Sunday.
DateTrunc(t, unit) ==
    LET day == t \div HoursPerDay
    IN  CASE unit = "day" -> day * HoursPerDay
          [] unit = "week" -> (day - ((day + 3) % DaysPerWeek)) * HoursPerDay
          [] unit = "month" ->
                LET m == CHOOSE m \in 1..12 :
                             /\ MonthStarts[m] <= day
                             /\ m < 12 => day < MonthStarts[m + 1]
                IN  MonthStarts[m] * HoursPerDay

Periods == {"day", "week", "month"}
Metrics == {"distance", "time", "elevation", "calories", "count"}

GroupEach(acc, a, period, metric) ==
    Append(acc, [period_start |-> DateTrunc(a.start_date, period),
                 value |-> Metric(a, metric), count |-> 1])

\* One document into the $group stage: added to the group of its period,
\* or the first of a new group.
Group(acc, a, period, metric) ==
    LET b == DateTrunc(a.start_date, period)
    IN  IF \E k \in 1..Len(acc) : acc[k].period_start = b
        THEN [k \in 1..Len(acc) |->
                 IF acc[k].period_start = b
                 THEN [acc[k] EXCEPT !.value = @ + Metric(a, metric), !.count = @ + 1]
                 ELSE acc[k]]
        ELSE Append(acc, [period_start |-> b, value |-> Metric(a, metric), count |-> 1])

RECURSIVE GroupAll(_, _, _, _)
GroupAll(acc, docs, period, metric) ==
    IF docs = <<>> THEN acc
    ELSE GroupAll(Group(acc, Head(docs), period, metric), Tail(docs), period, metric)

\* {"$sort": {"_id": 1}}
RECURSIVE SortByStart(_)
SortByStart(groups) ==
    IF groups = <<>> THEN <<>>
    ELSE LET k == CHOOSE k \in 1..Len(groups) :
                      \A l \in 1..Len(groups) :
                          groups[k].period_start <= groups[l].period_start
             Rest(i) == IF i < k THEN groups[i] ELSE groups[i + 1]
         IN  <<groups[k]>> \o SortByStart([i \in 1..(Len(groups) - 1) |-> Rest(i)])

\* An unknown period counts as "day", an unknown metric as "distance".
get_trend_timeseries(docs, user_id, metric, after, before, period, activity_type) ==
    LET unit == IF period \in Periods THEN period ELSE "day"
        field == IF metric \in Metrics THEN metric ELSE "distance"
    IN  SortByStart(GroupAll(<<>>, Match(docs, user_id, activity_type, after, before),
                             unit, field))

\* Each of the three calls below is a read of the collection; a behaviour
\* makes one of them.
Windows == { <<NoDate, NoDate>>, <<Jan31Night, NoDate>>, <<NoDate, Feb1>>,
             <<Jan31Night, Feb1>> }

\* get_user_activity_stats with some filters.
StatsCall ==
    /\ report.op = "none"
    /\ \E u \in AthleteIds, type \in {NoType, "Run", "Ride"}, w \in Windows :
          report' = [op |-> "stats", user_id |-> u, activity_type |-> type,
                     after |-> w[1], before |-> w[2],
                     result |-> get_user_activity_stats(activities, u, type, w[1], w[2])]
    /\ UNCHANGED <<users, session, bearer, attached, proc, now, ticks, issued,
                   delivered, writes, started, syncVars, icall, history, aiCalls>>

\* GET /api/analytics/dashboard: get_analytics_summary over a window.
SummaryCall ==
    /\ report.op = "none"
    /\ \E u \in AthleteIds, w \in Windows :
          report' = [op |-> "summary", user_id |-> u, activity_type |-> NoType,
                     after |-> w[1], before |-> w[2],
                     result |-> get_analytics_summary(activities, u, w[1], w[2])]
    /\ UNCHANGED <<users, session, bearer, attached, proc, now, ticks, issued,
                   delivered, writes, started, syncVars, icall, history, aiCalls>>

\* GET /api/analytics/trends
TrendCall ==
    /\ report.op = "none"
    /\ \E u \in AthleteIds, metric \in Metrics \cup {"pace"},
          period \in Periods \cup {"year"}, type \in {NoType, "Run"},
          w \in { <<NoDate, NoDate>>, <<Jan31Night, Feb1>> } :
          report' = [op |-> "trend", user_id |-> u, activity_type |-> type,
                     after |-> w[1], before |-> w[2], metric |-> metric,
                     period |-> period,
                     result |-> get_trend_timeseries(activities, u, metric, w[1], w[2],
                                                     period, type)]
    /\ UNCHANGED <<users, session, bearer, attached, proc, now, ticks, issued,
                   delivered, writes, started, syncVars, icall, history, aiCalls>>

\* ------------------------------------------------------ the specifications
Init == InitAuth(InitUsers) /\ InitSync /\ InitApp

\* One worker serving requests one after the other.
Next ==
    \/ StartMw("p1", Credentials)
    \/ StartSync("p1", HandlerCredentials)
    \/ StartManual("p1", HandlerCredentials)
    \/ StartCallback("p1")
    \/ MwResolve("p1")
    \/ MwRefresh("p1")
    \/ MwStore("p1")
    \/ MwReread("p1")
    \/ GwRead("p1")
    \/ GwPreRefresh("p1")
    \/ GwPreStore("p1")
    \/ GwRequest("p1")
    \/ GwForcedRefresh("p1")
    \/ GwForcedStore("p1")
    \/ MnResolve("p1")
    \/ MnRefresh("p1")
    \/ MnStore("p1")
    \/ CbExchange("p1", AthleteIds)
    \/ CbLookup("p1")
    \/ CbWrite("p1")
    \/ Tick

Spec == Init /\ [][Next]_vars

\* Two workers serving requests of athlete 1 concurrently, every one of
\* which finds the stored upstream token expired and refreshes it.
RaceUsers == { <<User0(T0 + BufferTime - 1, Cipher(0))>> }
RaceCredentials == { <<Valid1, NoJwt>> }

InitRace == InitAuth(RaceUsers) /\ InitSync /\ InitApp

NextRace ==
    \E p \in Procs :
        \/ StartMw(p, RaceCredentials)
        \/ StartManual(p, RaceCredentials)
        \/ MwResolve(p)
        \/ MwRefresh(p)
        \/ MwStore(p)
        \/ MwReread(p)
        \/ MnResolve(p)
        \/ MnRefresh(p)
        \/ MnStore(p)

SpecRace == InitRace /\ [][NextRace]_vars

\* Two workers serving OAuth callbacks of athlete 1 concurrently.
InitOAuth == InitAuth({<<>>}) /\ InitSync /\ InitApp

NextOAuth ==
    \E p \in Procs :
        \/ StartCallback(p)
        \/ CbExchange(p, {1})
        \/ CbLookup(p)
        \/ CbWrite(p)

SpecOAuth == InitOAuth /\ [][NextOAuth]_vars

\* The activity collection under a sequence of syncs.
InitStore == InitAuth({<<>>}) /\ InitSync /\ InitApp

NextStore == SyncCall

SpecStore == InitStore /\ [][NextStore]_vars

\* Two workers serving insight requests of athlete 1 for activity 101, with
\* or without a cached insight, while the activity is synced again.
InsightCollections ==
    { <<Doc(1, 101, 1, T0 - 1, NoInsight)>>, <<Doc(1, 101, 1, T0 - 1, CachedInsight)>> }

ResyncBatches ==
    { <<[strava_id |-> 101, strava_activity_id |-> 0, user_id |-> 1, name |-> "b"]>> }

Resync == SyncBatch(ResyncBatches)

RaceOutcomes == { o \in Outcomes : o.kind = "raise" \/ (o.kind = "object" /\ o.body.model = JStr("m")) }

InitInsight ==
    /\ InitAuth({ <<UserOf(1), UserOf(2)>> })
    /\ activities \in InsightCollections
    /\ synced = [id \in ActivityIds |-> NoPayload]
    /\ lastSync = NoSync
    /\ InitApp

NextInsight ==
    \/ \E p \in Procs :
          \/ StartGenerate(p, {1}, {Hex(1)})
          \/ StartFetch(p, {1}, {Hex(1)})
          \/ InsFind(p)
          \/ InsUser(p)
          \/ InsGenerate(p, RaceOutcomes)
          \/ InsStore(p)
    \/ Resync

SpecInsight == InitInsight /\ [][NextInsight]_vars

\* One worker serving one request of either athlete that names activity 101
\* of athlete 1: an insight request, a lookup, or a period summary.
NextRoutes ==
    \/ StartGenerate("p1", AthleteIds, Idents)
    \/ StartFetch("p1", AthleteIds, Idents)
    \/ InsFind("p1")
    \/ InsUser("p1")
    \/ InsGenerate("p1", Outcomes)
    \/ InsStore("p1")
    \/ LookupById("p1")
    \/ LookupByStravaId("p1")
    \/ StartSummary("p1")
    \/ SummaryGenerate("p1")

SpecRoutes == InitInsight /\ [][NextRoutes]_vars

\* One worker serving bulk requests over activities of both athletes.
BulkCollections ==
    { <<Doc(1, 101, 1, T0 - 3, i1), Doc(2, 102, 1, T0 - 2, i2),
        Doc(3, 103, 1, T0 - 2, NoInsight), Doc(4, 104, 2, T0 - 1, NoInsight)>>
        : i1 \in {NoInsight, CachedInsight}, i2 \in {NoInsight, CachedInsight} }

InitBulk ==
    /\ InitAuth({ <<UserOf(1), UserOf(2)>> })
    /\ activities \in BulkCollections
    /\ synced = [id \in ActivityIds |-> NoPayload]
    /\ lastSync = NoSync
    /\ InitApp

NextBulk ==
    \/ StartBulk("p1")
    \/ InsFind("p1")
    \/ InsUser("p1")
    \/ InsGenerate("p1", Outcomes)
    \/ InsStore("p1")

SpecBulk == InitBulk /\ [][NextBulk]_vars

\* Two users with an activity each, under milestone requests and deletions.
InitAccount ==
    /\ InitAuth({ <<AccountUser(1), AccountUser(2)>> })
    /\ activities = <<Doc(1, 101, 1, T0 - 1, NoInsight), Doc(2, 102, 2, T0 - 1, NoInsight)>>
    /\ synced = [id \in ActivityIds |-> NoPayload]
    /\ lastSync = NoSync
    /\ InitApp

NextAccount ==
    \/ CreateMilestone
    \/ UpdateMilestone
    \/ DeleteMilestone
    \/ DeleteUser
    \/ DeleteUserActivities

SpecAccount == InitAccount /\ [][NextAccount]_vars

\* The aggregations over collections of up to MaxRecords activities.
InitAnalytics ==
    /\ InitAuth({ <<UserOf(1), UserOf(2)>> })
    /\ activities \in SeqsUpTo(MeasuredActivities, MaxRecords)
    /\ synced = [id \in ActivityIds |-> NoPayload]
    /\ lastSync = NoSync
    /\ InitApp

NextAnalytics ==
    \/ StatsCall
    \/ SummaryCall
    \/ TrendCall

SpecAnalytics == InitAnalytics /\ [][NextAnalytics]_vars

\* Issuing session tokens and decoding them at later times.
JwtNames == {"alice", "bob", ""}

\* The clock steps between issuing and decoding: a second, the lifetime of
\* a session token less a second, and the lifetime.
JwtSteps == {1, JwtTtl - 1, JwtTtl}

\* A token the client altered: the signature no longer verifies.
Tampered(token) == [token EXCEPT !.user_id = 3 - @, !.sig = "bad"]

JwtTick ==
    /\ ticks < MaxJwtTicks
    /\ \E d \in JwtSteps : now' = now + d
    /\ ticks' = ticks + 1
    /\ UNCHANGED <<users, session, bearer, attached, proc, issued, delivered,
                   writes, started, syncVars, appVars>>

JwtIssue ==
    /\ report.op = "none"
    /\ \E id \in AthleteIds, name \in JwtNames :
          /\ session' = [session EXCEPT !["p1"] = create_jwt_token(id, name, now)]
          /\ report' = [op |-> "issue", user_id |-> id, username |-> name,
                        issued_at |-> now]
    /\ UNCHANGED <<users, bearer, attached, proc, now, ticks, issued, delivered,
                   writes, started, syncVars, icall, history, aiCalls>>

\* decode_jwt_token or decode_jwt_token_allow_expired of the token the
\* client presents: the issued one or an altered one.
JwtDecode ==
    /\ report.op \in {"issue", "decode", "validate"}
    /\ \E token \in {session["p1"], Tampered(session["p1"])},
          allow_expired \in BOOLEAN :
          \E d \in IF allow_expired THEN {decode_jwt_token_allow_expired(token)}
                   ELSE decode_jwt_token(token, now) :
              report' = [op |-> "decode", user_id |-> report.user_id,
                         username |-> report.username,
                         issued_at |-> report.issued_at, token |-> token,
                         allow_expired |-> allow_expired, at |-> now,
                         result |-> d]
    /\ UNCHANGED <<users, session, bearer, attached, proc, now, ticks, issued,
                   delivered, writes, started, syncVars, icall, history, aiCalls>>

JwtValidate ==
    /\ report.op \in {"issue", "decode", "validate"}
    /\ \E token \in {session["p1"], Tampered(session["p1"])} :
          \E d \in validate_jwt_token(token, now) :
              report' = [op |-> "validate", user_id |-> report.user_id,
                         username |-> report.username,
                         issued_at |-> report.issued_at, token |-> token,
                         allow_expired |-> FALSE, at |-> now,
                         result |-> d]
    /\ UNCHANGED <<users, session, bearer, attached, proc, now, ticks, issued,
                   delivered, writes, started, syncVars, icall, history, aiCalls>>

InitJwt == InitAuth({<<>>}) /\ InitSync /\ InitApp

NextJwt ==
    \/ JwtIssue
    \/ JwtDecode
    \/ JwtValidate
    \/ JwtTick

SpecJwt == InitJwt /\ [][NextJwt]_vars

\* ------------------------------------- GET /api/auth/user, /api/auth/status
\* The two handlers run the same steps; /api/auth/user answers a failure with
\* status 401, /api/auth/status with 200 and authenticated = false.
AuthRoutes == {"auth_user", "auth_status"}

AuEnd(p, pr, user) ==
    proc' = [proc EXCEPT ![p] =
        [pr EXCEPT !.pc = "done",
                   !.ident = IF user = NoUser THEN NoInfo
                             ELSE [user_id |-> user.strava_id,
                                   username |-> user.username],
                   !.status = IF user = NoUser /\ pr.op = "auth_user"
                              THEN 401 ELSE 200]]

StartAuth(p, creds) ==
    /\ CanStart(p)
    /\ \E c \in creds, route \in AuthRoutes : Arrive(p, route, "au_resolve", c)

\* get_user_info lines 31-51 and 73-79 (get_auth_status 85-105, 127-132):
\* strict validation only, then the expiry test; the refresh token is
\* decrypted and sent without a test for emptiness.
AuResolve(p) ==
    /\ proc[p].pc = "au_resolve"
    /\ LET jwt_token == session[p]
       IN  IF jwt_token = NoJwt THEN AuEnd(p, proc[p], NoUser)
           ELSE \E v \in validate_jwt_token(jwt_token, now), db \in DbOutcomes :
                  LET user == get_user_by_strava_id(v.payload.user_id)
                      pr == [proc[p] EXCEPT !.user = user]
                  IN  IF v.err # "none" \/ db = "raise" \/ user = NoUser
                      THEN AuEnd(p, proc[p], NoUser)
                      ELSE IF is_strava_token_expired(user.token_expires_at, now)
                      THEN proc' = [proc EXCEPT ![p] =
                               [pr EXCEPT !.pc = "au_refresh", !.stale = TRUE,
                                          !.sent = decrypt_token(user.refresh_token)]]
                      ELSE AuEnd(p, pr, user)
    /\ UNCHANGED <<users, session, bearer, attached, now, ticks, issued,
                   delivered, writes, started, syncVars, appVars>>

\* Lines 51-53, 70-71 (105-107, 124-125).
AuRefresh(p) ==
    /\ proc[p].pc = "au_refresh"
    /\ \E resp \in Answers :
          LET pr == [proc[p] EXCEPT !.resp = resp, !.npre = @ + 1]
          IN  /\ Deliver(resp)
              /\ IF refresh_strava_access_token(resp) = "tokens" /\ ~ArgsRaise(resp)
                 THEN proc' = [proc EXCEPT ![p] = [pr EXCEPT !.pc = "au_store"]]
                 ELSE AuEnd(p, pr, NoUser)
    /\ UNCHANGED <<users, session, bearer, attached, now, ticks, writes,
                   started, syncVars, appVars>>

\* Lines 58-66 (112-120).
AuStore(p) ==
    /\ proc[p].pc = "au_store"
    /\ \E db \in DbOutcomes :
          IF db = "raise"
          THEN /\ AuEnd(p, proc[p], NoUser)
               /\ UNCHANGED <<users, writes>>
          ELSE /\ StoreTokens(p, proc[p].resp, proc[p].user.strava_id)
               /\ proc' = [proc EXCEPT ![p] =
                      [@ EXCEPT !.pc = "au_reread", !.stored = proc[p].resp.n]]
    /\ UNCHANGED <<session, bearer, attached, now, ticks, issued, delivered,
                   started, syncVars, appVars>>

\* Lines 69, 73-75 (123, 127-130).
AuReread(p) ==
    /\ proc[p].pc = "au_reread"
    /\ \E db \in DbOutcomes :
          LET user == get_user_by_strava_id(proc[p].user.strava_id)
          IN  IF db = "raise" THEN AuEnd(p, proc[p], NoUser)
              ELSE AuEnd(p, [proc[p] EXCEPT !.user = user], user)
    /\ UNCHANGED <<users, session, bearer, attached, now, ticks, issued,
                   delivered, writes, started, syncVars, appVars>>

\* One worker serving requests of athlete 1, whose stored refresh token is
\* empty or was encrypted under a key the process no longer has (and, for
\* comparison, one whose refresh token is usable); the stored access token
\* is expired, or about to be, or it is not and the upstream may refuse it.
SixHours == 6 * 3600

NoRefreshUsers ==
    { <<User0(T0 + d, r)>> : d \in {BufferTime - 1, BufferTime, SixHours},
                            r \in {EmptyTok, OldCipher(0)} }
    \cup { <<[User0(T0 + SixHours, OldCipher(0)) EXCEPT !.access_token = OldCipher(0)]>> }
    \cup { <<User0(T0 + BufferTime - 1, Cipher(0))>> }

NoRefreshCredentials == { <<NoJwt, NoJwt>>, <<Valid1, NoJwt>>, <<Expired1, NoJwt>> }

InitNoRefresh == InitAuth(NoRefreshUsers) /\ InitSync /\ InitApp

NextNoRefresh ==
    \/ StartMw("p1", NoRefreshCredentials)
    \/ StartSync("p1", NoRefreshCredentials)
    \/ StartManual("p1", NoRefreshCredentials)
    \/ StartAuth("p1", NoRefreshCredentials)
    \/ MwResolve("p1")
    \/ MwRefresh("p1")
    \/ MwStore("p1")
    \/ MwReread("p1")
    \/ GwRead("p1")
    \/ GwPreRefresh("p1")
    \/ GwPreStore("p1")
    \/ GwRequest("p1")
    \/ GwForcedRefresh("p1")
    \/ GwForcedStore("p1")
    \/ MnResolve("p1")
    \/ MnRefresh("p1")
    \/ MnStore("p1")
    \/ AuResolve("p1")
    \/ AuRefresh("p1")
    \/ AuStore("p1")
    \/ AuReread("p1")
    \/ Tick

SpecNoRefresh == InitNoRefresh /\ [][NextNoRefresh]_vars

\* GET /api/activities/stats/summary.  The keys of the statistics that
\* get_activity_stats reads when it builds its response (lines 263-270).
StatsRead ==
    {"total_activities", "total_distance", "total_time", "total_elevation",
     "total_calories", "activities_by_type", "average_distance", "average_time"}

\* get_activity_stats for an authenticated user: 404 without a user record;
\* a key missing from the statistics raises KeyError, which the handler's
\* `except Exception` turns into status 500.  (The three notable-activity
\* lookups in between only read the collection.)
get_activity_stats(docs, user_id) ==
    LET stats == get_user_activity_stats(docs, user_id, NoType, NoDate, NoDate)
    IN  IF get_user_by_strava_id(user_id) = NoUser THEN [status |-> 404]
        ELSE IF StatsRead \subseteq DOMAIN stats
        THEN [status |-> 200, stats |-> [k \in StatsRead |-> stats[k]]]
        ELSE [status |-> 500]

GetActivityStats ==
    /\ report.op = "none"
    /\ \E u \in AthleteIds :
          report' = [op |-> "stats_route", user_id |-> u,
                     result |-> get_activity_stats(activities, u)]
    /\ UNCHANGED <<users, session, bearer, attached, proc, now, ticks, issued,
                   delivered, writes, started, syncVars, icall, history, aiCalls>>

NextStats == GetActivityStats

SpecStats == InitAnalytics /\ [][NextStats]_vars

\* ================================================================ properties
\* The positions inside validate_and_inject_user.
MwPositions == {"mw_resolve", "mw_refresh", "mw_store", "mw_reread"}

\* The token endpoint's answer was accepted by the code that asked for it
\* (`if refreshed_tokens:` passed and the arguments of the write evaluated).
Accepted(resp) == refresh_strava_access_token(resp) = "tokens" /\ ~ArgsRaise(resp)

\* C1: a gateway call whose first resource request is answered 401 performs
\* exactly one forced refresh; if that refresh succeeds exactly one retry is
\* sent, so a call sends at most two resource requests and performs at most
\* one forced refresh; a 401 answer to the retry ends the call with an
\* authentication error, with no further refresh or request.
C1_RetryOnce ==
    \A p \in Procs :
        LET pr == proc[p]
            refreshed == /\ pr.nforced = 1
                         /\ Accepted(pr.resp)
                         /\ pr.stored = pr.resp.n
        IN  pr.op = "sync" =>
              /\ pr.nreq <= 2
              /\ pr.nforced <= 1
              /\ (pr.nforced = 1) => (pr.first = "401")
              /\ (pr.first = "401" /\ pr.pc # "gw_refresh") => (pr.nforced = 1)
              /\ (pr.nreq = 2) => (refreshed /\ pr.pc = "done")
              /\ (refreshed /\ pr.pc = "done") => (pr.nreq = 2)
              /\ (pr.nreq = 2 /\ pr.last = "401") => (pr.status = 401)

C1_Witness ==
    \E p \in Procs :
        /\ proc[p].op = "sync"
        /\ proc[p].pc = "done"
        /\ proc[p].first = "401"
        /\ proc[p].last = "401"
        /\ proc[p].nforced = 1
        /\ proc[p].nreq = 2
        /\ proc[p].status = 401

\* C2: when the middleware finds the stored upstream token expired and the
\* refresh does not succeed (the stored refresh token decrypts to empty, the
\* token endpoint answers non-200 or with nothing, or the refresh raises),
\* the request gets no identity: no user is attached and no new session
\* token is written, whatever the local session token was.
C2_FailedRefreshNoIdentity ==
    \A p \in Procs :
        LET pr == proc[p]
            failed == \/ /\ pr.nmw = 0
                         /\ ~Truthy(decrypt_token(pr.user.refresh_token))
                      \/ /\ pr.nmw = 1
                         /\ ~Accepted(pr.mwresp)
        IN  (pr.op \in {"mw", "sync"} /\ pr.stale /\ failed) =>
              /\ pr.pc = "done"
              /\ pr.ident = NoInfo
              /\ attached[p] = NoUser
              /\ session[p] = pr.tok0
              /\ pr.issuedAt = 0

C2_Witness ==
    \E p \in Procs :
        /\ proc[p].op = "mw"
        /\ proc[p].tok0 = Valid1
        /\ proc[p].stale
        /\ proc[p].nmw = 1
        /\ proc[p].mwresp.status = 400
        /\ proc[p].pc = "done"
        /\ proc[p].ident = NoInfo

\* C3: the step in which the middleware authorizes a request whose session
\* token passed only the lenient decode writes a fresh session token for the
\* resolved user (user_id the user's strava id, expiry seven days after the
\* time of issue) into the session and attaches that user; the middleware
\* writes a session token in no other step, and only once the user is
\* resolved and the upstream token is fresh or has been refreshed and stored.
C3_SilentRenewal ==
    [][\A p \in Procs :
          LET renews == /\ proc[p].pc \in MwPositions
                        /\ proc'[p].ident # NoInfo
                        /\ proc'[p].jwt_expired
          IN  /\ renews =>
                    /\ proc'[p].user # NoUser
                    /\ proc'[p].ident.user_id = proc'[p].user.strava_id
                    /\ attached'[p] = proc'[p].user
                    /\ session'[p] = [user_id |-> proc'[p].user.strava_id,
                                      username |-> proc'[p].user.username,
                                      exp |-> now + JwtTtl, iat |-> now,
                                      sig |-> "ok"]
                    /\ \/ ~proc'[p].stale
                       \/ /\ Accepted(proc'[p].mwresp)
                          /\ proc'[p].stored = proc'[p].mwresp.n
                          /\ Triple(proc'[p].user) = EncTriple(proc'[p].mwresp)
              /\ (proc[p].pc \in MwPositions /\ session'[p] # session[p]) => renews
      ]_vars

C3_Witness ==
    \E p \in Procs :
        /\ proc[p].op = "mw"
        /\ proc[p].pc = "done"
        /\ proc[p].jwt_expired
        /\ proc[p].stale
        /\ proc[p].stored # 0
        /\ proc[p].ident # NoInfo
        /\ session[p] # proc[p].tok0
        /\ session[p].exp = proc[p].issuedAt + JwtTtl

\* C4: once validate_and_inject_user is over, get_current_user has raised
\* 401 exactly when it yielded no identity and has raised nothing else;
\* get_optional_user has raised nothing; no exception has left the
\* middleware; and no token, an undecodable token or an unknown user each
\* yield no identity.
C4_RequiredVersusOptional ==
    \A p \in Procs :
        LET pr == proc[p]
            tok == extract_jwt_from_session(pr.tok0, bearer[p])
        IN  (pr.op \in {"mw", "sync"} /\ pr.pc \notin MwPositions) =>
              /\ pr.escaped = "none"
              /\ pr.required \in {0, 401}
              /\ (pr.required = 401) <=> (pr.ident = NoInfo)
              /\ pr.optional = 0
              /\ (pr.ident # NoInfo) => (attached[p] # NoUser)
              /\ (\/ tok = NoJwt
                  \/ tok.sig # "ok"
                  \/ tok.user_id = 0
                  \/ get_user_by_strava_id(tok.user_id) = NoUser) => (pr.ident = NoInfo)

C4_Witness ==
    \E p \in Procs :
        /\ proc[p].op = "mw"
        /\ proc[p].pc = "done"
        /\ proc[p].nmw = 1
        /\ proc[p].mwresp = NoResp
        /\ proc[p].ident = NoInfo
        /\ proc[p].required = 401
        /\ proc[p].optional = 0

\* C5: with no other writer of the user's tokens, when get_valid_access_token
\* returns: if the stored expiry was outside the five-minute buffer at entry,
\* the token endpoint was not called, the stored triple is unchanged and the
\* stored access token, decrypted, is returned; if it was inside the buffer
\* and the refresh succeeded, the stored triple is exactly that response's
\* and its access token is returned; either way the returned token is the
\* decryption of the stored access token.
C5_ValidAccessToken ==
    \A p \in Procs :
        LET pr == proc[p]
            u == get_user_by_strava_id(pr.entry.strava_id)
        IN  (pr.op = "sync" /\ pr.pc = "gw_request") =>
              /\ (pr.t0 <= pr.entry.token_expires_at - BufferTime) =>
                    /\ pr.npre = 0
                    /\ Triple(u) = Triple(pr.entry)
                    /\ pr.access = decrypt_token(u.access_token)
              /\ (pr.t0 > pr.entry.token_expires_at - BufferTime
                  /\ WellFormed(pr.resp)) =>
                    /\ pr.npre = 1
                    /\ u.access_token = encrypt_token(pr.resp.access_token)
                    /\ u.refresh_token = encrypt_token(pr.resp.refresh_token)
                    /\ u.token_expires_at = pr.resp.expires_at
                    /\ pr.access = pr.resp.access_token
                    /\ pr.access = decrypt_token(u.access_token)

C5_Witness ==
    \E p \in Procs :
        /\ proc[p].op = "sync"
        /\ proc[p].pc = "gw_request"
        /\ proc[p].t0 > proc[p].entry.token_expires_at - BufferTime
        /\ proc[p].npre = 1
        /\ WellFormed(proc[p].resp)
        /\ proc[p].stored = proc[p].resp.n

\* C6: a refresh whose answer is non-200, or 200 with a body that lacks
\* access_token, refresh_token or expires_at, makes its path fail and stores
\* nothing of that answer: the stored triple is never the one computed from
\* that answer, and the path ends without an identity (middleware) or with
\* an error status (gateway, manual refresh).
C6_FailedRefreshStoresNothing ==
    \A p \in Procs :
        LET pr == proc[p]
        IN  (/\ pr.op \in {"mw", "sync", "manual"}
             /\ pr.nmw + pr.npre + pr.nforced > 0
             /\ ~WellFormed(pr.resp)) =>
              /\ pr.stored = 0 \/ pr.stored # pr.resp.n
              /\ (pr.pc = "done" /\ pr.op = "mw") => (pr.ident = NoInfo)
              /\ (pr.pc = "done" /\ pr.op = "manual") => (pr.status = 401)
              /\ (pr.pc = "done" /\ pr.op = "sync") => (pr.status \in {401, 500})

\* C7: under concurrent refreshes of one user the stored token triple is
\* always the initial triple or the whole triple of one single token
\* response, never a mixture; the triple stored is that of the write that
\* came last; and a stored access token decrypts to a token.
C7_LastWriteWins ==
    LET u == get_user_by_strava_id(1)
    IN  /\ \/ Triple(u) \in { Triple(us[1]) : us \in RaceUsers }
           \/ \E d \in delivered : Triple(u) = d[2]
        /\ (writes = <<>>) => (Triple(u) \in { Triple(us[1]) : us \in RaceUsers })
        /\ (writes # <<>>) =>
               \E d \in delivered : /\ d[1] = writes[Len(writes)]
                                    /\ Triple(u) = d[2]
        /\ Truthy(u.access_token) => (decrypt_token(u.access_token).k = "plain")

C7_Witness ==
    \E p \in Procs, q \in Procs :
        /\ p # q
        /\ Len(writes) = 2
        /\ proc[p].stored = writes[1]
        /\ proc[q].stored = writes[2]
        /\ writes[2] < writes[1]
        /\ \E d \in delivered : d[1] = writes[2] /\ Triple(get_user_by_strava_id(1)) = d[2]

\* C8: in every reachable state each user's access_token and refresh_token
\* is a ciphertext (an output of encrypt_token) or empty, never a plaintext
\* token, and a user with a token has token_expires_at set.
C8_TokensEncrypted ==
    \A i \in 1..Len(users) :
        /\ users[i].access_token.k \in {"fernet", "fernet_old", "empty"}
        /\ users[i].refresh_token.k \in {"fernet", "fernet_old", "empty"}
        /\ (Truthy(users[i].access_token) \/ Truthy(users[i].refresh_token))
               => (users[i].token_expires_at # NoExpiry)

C8_Witness ==
    \E p \in Procs :
        /\ proc[p].op = "cb"
        /\ proc[p].pc = "done"
        /\ proc[p].status = 302
        /\ WellFormed(proc[p].resp)
        /\ Len(users) = 1
        /\ users[1].access_token = Cipher(proc[p].resp.n)
        /\ users[1].refresh_token = Cipher(proc[p].resp.n)
        /\ users[1].token_expires_at = proc[p].resp.expires_at

\* C9: the user collection holds at most one record per athlete id, also
\* when OAuth callbacks of one athlete run concurrently.
C9_OneUserPerAthlete ==
    \A id \in AthleteIds :
        Cardinality({ i \in 1..Len(users) : users[i].strava_id = id }) <= 1

\* C10: after any sequence of sync_user_activities calls the collection
\* holds exactly one record per external activity id synced, found under
\* both identifier fields and carrying the fields of the payload synced
\* last; a call reports created = the number of identifiers it saw for the
\* first time, and an identifier sent again counts as updated, not created.
C10_SyncIdempotent ==
    LET seen == { id \in ActivityIds : synced[id] # NoPayload }
        ids == { ExternalId(lastSync.batch[i]) : i \in 1..Len(lastSync.batch) } \ {0}
        fresh == { id \in ids : lastSync.prior[id] = NoPayload }
    IN  /\ Len(activities) = Cardinality(seen)
        /\ \A id \in ActivityIds :
              Cardinality(Matches(activities, id)) = IF id \in seen THEN 1 ELSE 0
        /\ \A id \in seen :
              \A i \in Matches(activities, id) :
                  /\ activities[i].strava_id = id
                  /\ activities[i].strava_activity_id = id
                  /\ activities[i].name = synced[id].name
                  /\ activities[i].user_id = synced[id].user_id
        /\ lastSync.created = Cardinality(fresh)
        /\ lastSync.updated = Cardinality(ids \ fresh)
        /\ lastSync.total = lastSync.created + lastSync.updated

C10_Witness ==
    /\ lastSync.n = 2
    /\ Len(lastSync.batch) = 1
    /\ ExternalId(lastSync.batch[1]) = 101
    /\ lastSync.prior[101] # NoPayload
    /\ lastSync.prior[101].name # lastSync.batch[1].name
    /\ lastSync.created = 0
    /\ lastSync.updated = 1
    /\ Len(activities) = 1
    /\ activities[1].name = lastSync.batch[1].name

\* C11: once an activity holds a cached insight, a step changes or removes
\* it only if it is the write of a generate call made with force=true; no
\* force=false call and no sync does, however the calls interleave.
C11_CachedInsightKept ==
    [][\A i \in 1..Len(activities) :
          (/\ activities[i].insights # NoInsight
           /\ activities'[i].insights # activities[i].insights)
          => \E p \in Procs :
                /\ icall[p].pc = "store"
                /\ icall[p].force
                /\ icall'[p].pc = "done"]_vars

\* C12: a force=false call that finds a cached insight returns that insight
\* unchanged, calls no provider and writes nothing; and of two successive
\* force=false calls on one activity that both succeed, the second returns
\* the payload the first returned, with at most one provider call between
\* them.
C12_CachedReturn ==
    /\ [][\A p \in Procs :
             LET c == icall[p]
                 found == find_activity_for_user(activities, c.user_id, c.ident)
             IN  (/\ c.pc = "find"
                  /\ icall'[p] # c
                  /\ ~c.force
                  /\ found # NoDoc
                  /\ found.insights # NoInsight)
                 => /\ icall'[p].pc = "done"
                    /\ icall'[p].status = 200
                    /\ icall'[p].body = found.insights
                    /\ activities' = activities
                    /\ aiCalls' = aiCalls]_vars
    /\ [](\A i, j \in 1..Len(history) :
             (/\ i < j
              /\ history[j].seen >= i
              /\ history[i].op \in {"generate", "fetch"}
              /\ history[j].op \in {"generate", "fetch"}
              /\ ~history[i].force /\ ~history[j].force
              /\ history[i].ident = history[j].ident
              /\ history[i].user_id = history[j].user_id
              /\ history[i].status = 200 /\ history[j].status = 200)
             => /\ history[j].body = history[i].body
                /\ history[i].invoked + history[j].invoked <= 1)

\* The documents an identifier names: by _id, or by external id.
Named(ident) ==
    { i \in 1..Len(activities) :
        \/ "hex" \in DOMAIN ident /\ activities[i].oid = ident.hex
        \/ "num" \in DOMAIN ident
           /\ (activities[i].strava_id = ident.num
               \/ activities[i].strava_activity_id = ident.num) }

\* C13: a lookup, a lookup by external id, an insight generation or an
\* insight fetch made by one user that names an activity of another user
\* ends in 404 or 403, returns nothing of the record and has written
\* nothing; and no step of a user's call changes a document of another user.
C13_CrossUserIsolation ==
    /\ [](\A k \in 1..Len(history) :
             LET h == history[k]
             IN  (/\ h.op \in {"generate", "fetch", "get_activity",
                               "get_activity_by_strava_id"}
                  /\ \E i \in Named(h.ident) : activities[i].user_id # h.user_id)
                 => /\ h.status \in {403, 404}
                    /\ h.body = NoBody
                    /\ ~h.wrote
                    /\ h.invoked = 0)
    /\ [][\A p \in Procs : \A i \in 1..Len(activities) :
             (icall'[p] # icall[p] /\ activities'[i] # activities[i])
             => icall[p].user_id = activities[i].user_id]_vars

C13_Witness ==
    /\ Len(history) = 1
    /\ history[1].op = "generate"
    /\ history[1].force
    /\ history[1].user_id = 2
    /\ history[1].ident = Hex(1)
    /\ history[1].status = 404
    /\ activities[1].oid = 1
    /\ activities[1].user_id = 1
    /\ activities[1].insights = CachedInsight

\* C14: once delete_user has deleted a user, no activity with that user's
\* id is left, so that every stored activity's user_id is the strava_id of
\* a stored user.
C14_DeletionCascades ==
    /\ report.op = "delete_user" =>
          \A i \in 1..Len(activities) : activities[i].user_id # report.user_id
    /\ \A i \in 1..Len(activities) : HasUser(users, activities[i].user_id)

\* C15: whatever milestone requests a user has made, the ids in the user's
\* milestone list are pairwise distinct.
C15_MilestoneIdsDistinct ==
    \A i \in 1..Len(users) :
        \A k, l \in 1..Len(users[i].milestones) :
            users[i].milestones[k].id = users[i].milestones[l].id => k = l

\* The bounds of an insight: summary of at most 280 characters, at most 3
\* coach tips, at most 5 tags, every tag in lower case.
Bounded(ins) ==
    /\ Len(ins.summary) <= 280
    /\ Len(ins.coach_tips) <= 3
    /\ Len(ins.tags) <= 5
    /\ \A k \in 1..Len(ins.tags) : lower(ins.tags[k]) = ins.tags[k]

\* s is the first n elements of all, or all of it when it is shorter.
PrefixOf(s, all, n) ==
    /\ Len(s) = (IF Len(all) < n THEN Len(all) ELSE n)
    /\ s = SubSeq(all, 1, Len(s))

\* C16: every insight stored on an activity and every insight a generation
\* of generate_activity_insights or generate_period_summary returned keeps
\* the bounds, whatever the provider replied; a reply over the bounds is cut
\* to its first 280 characters, 3 tips and 5 tags, in their order and with
\* their duplicates.
C16_InsightBounds ==
    /\ \A i \in 1..Len(activities) :
          activities[i].insights # NoInsight => Bounded(activities[i].insights)
    /\ \A k \in 1..Len(history) :
          LET h == history[k]
              raw == generate_json(h.outcome)
          IN  (h.op \in {"generate", "fetch", "summary"} /\ h.status = 200)
              => /\ Bounded(h.body)
                 /\ h.invoked = 1 =>
                       /\ PrefixOf(h.body.summary,
                                   strip(PyStr(GetOr(raw.summary, JStr("")))), 280)
                       /\ PrefixOf(h.body.coach_tips, StripAll(AsList(raw.coach_tips)), 3)
                       /\ PrefixOf(h.body.tags,
                                   LowerAll(StripAll(AsList(raw.tags))), 5)
                       /\ h.wrote =>
                             \E i \in 1..Len(activities) :
                                 activities[i].insights = StoredInsight(h.body)

C16_Witness ==
    /\ Len(history) = 1
    /\ history[1].op = "generate"
    /\ history[1].status = 200
    /\ history[1].wrote
    /\ history[1].outcome.kind = "object"
    /\ Len(PyStr(history[1].outcome.body.summary)) > 400
    /\ Len(history[1].outcome.body.coach_tips.list) > 3
    /\ history[1].body.summary = Repeat("0123456789", 28)
    /\ history[1].body.coach_tips = <<"a", "b", "a">>
    /\ history[1].body.tags = <<"race", "race", "run", "a", "c">>
    /\ activities[1].insights = StoredInsight(history[1].body)

\* C17: whatever the provider call ends in (a reply that parses to an
\* object, one that parses to something else, one that does not parse, an
\* exception or timeout), a generate_activity_insights call that reached it
\* returns 200 with an insight inside the bounds and has stored it; when the
\* provider call failed the insight is the fixed fallback payload.
C17_EveryOutcomeYieldsInsight ==
    \A k \in 1..Len(history) :
        LET h == history[k]
            fallback == coerce_insight_payload(FallbackReply("fallback:openai:gpt-4o-mini"),
                                               h.body.generated_at)
        IN  (h.op \in {"generate", "fetch"} /\ h.invoked = 1)
            => /\ h.status = 200
               /\ h.wrote
               /\ Bounded(h.body)
               /\ h.outcome.kind \in {"raise", "unparseable"} => h.body = fallback

\* The document with a given _id.
ById(oid) == activities[CHOOSE i \in 1..Len(activities) : activities[i].oid = oid]

\* C18: generate_recent_activities_bulk selects activities of the caller
\* that have no cached insight, at most `limit` of them, the most recent
\* ones, most recent first; every selected activity is attempted, also
\* after one has failed; and the result satisfies
\* 0 <= generated <= requested <= limit, requested being the number selected
\* and generated the number of them whose generation completed.
C18_BulkRecent ==
    /\ [][\A p \in Procs :
             (icall[p].op = "none" /\ icall'[p].op = "bulk")
             => LET c == icall'[p]
                    sel == c.selected
                    cand == { activities[i].oid : i \in
                                { i \in 1..Len(activities) :
                                    /\ activities[i].user_id = c.user_id
                                    /\ activities[i].insights = NoInsight } }
                    chosen == { sel[k] : k \in 1..Len(sel) }
                IN  /\ Len(sel) <= c.limit
                    /\ chosen \subseteq cand
                    /\ Cardinality(chosen) = Len(sel)
                    /\ Len(sel) < c.limit => chosen = cand
                    /\ \A a, b \in 1..Len(sel) :
                          a < b => ById(sel[a]).start_date >= ById(sel[b]).start_date
                    /\ \A x \in cand \ chosen : \A y \in chosen :
                          ById(y).start_date >= ById(x).start_date]_vars
    /\ [](\A k \in 1..Len(history) :
             LET h == history[k]
                 chosen == { h.selected[j] : j \in 1..Len(h.selected) }
                 failed == { h.failed[j] : j \in 1..Len(h.failed) }
             IN  h.op = "bulk"
                 => /\ h.status = 200
                    /\ h.body.requested = Len(h.selected)
                    /\ 0 <= h.body.generated
                    /\ h.body.generated <= h.body.requested
                    /\ h.body.requested <= h.limit
                    /\ failed \subseteq chosen
                    /\ h.body.generated = Cardinality(chosen \ failed)
                    /\ \A x \in chosen \ failed : ById(x).insights # NoInsight
                    /\ \A x \in failed : ById(x).insights = NoInsight)

C18_Witness ==
    /\ Len(history) = 1
    /\ history[1].op = "bulk"
    /\ history[1].user_id = 1
    /\ history[1].limit = 2
    /\ history[1].selected = <<3, 2>>
    /\ history[1].failed = <<3>>
    /\ history[1].body = [generated |-> 1, requested |-> 2]
    /\ ById(1).insights = NoInsight
    /\ ById(2).insights # NoInsight
    /\ ById(3).insights = NoInsight

\* The stored activities a call's filters select.
Selected(r) ==
    { i \in 1..Len(activities) :
        /\ activities[i].user_id = r.user_id
        /\ r.activity_type # NoType => activities[i].activity_type = r.activity_type
        /\ r.after # NoDate => activities[i].start_date >= r.after
        /\ r.before # NoDate => activities[i].start_date <= r.before }

\* A field of an activity, a missing one counted as 0.
FieldOrZero(a, field) ==
    LET v == CASE field = "distance" -> a.distance
               [] field = "time" -> a.moving_time
               [] field = "elevation" -> a.total_elevation_gain
               [] field = "calories" -> a.calories
    IN  IF v = Missing THEN 0 ELSE v

RECURSIVE TotalOver(_, _)
TotalOver(S, field) ==
    IF S = {} THEN 0
    ELSE LET i == CHOOSE i \in S : TRUE
         IN  FieldOrZero(activities[i], field) + TotalOver(S \ {i}, field)

\* avg is total / count, and 0 without records.
IsAverage(avg, total, count) ==
    IF count > 0 THEN avg.num * count = total * avg.den /\ avg.den > 0
    ELSE avg.num = 0

RightTotals(t, S) ==
    /\ t.total_activities = Cardinality(S)
    /\ t.total_distance = TotalOver(S, "distance")
    /\ t.total_time = TotalOver(S, "time")
    /\ t.total_elevation = TotalOver(S, "elevation")
    /\ t.total_calories = TotalOver(S, "calories")
    /\ IsAverage(t.average_distance, t.total_distance, t.total_activities)
    /\ IsAverage(t.average_time, t.total_time, t.total_activities)

\* C19: for every set of records the filters select, the totals of
\* get_user_activity_stats and get_analytics_summary (overall and per
\* sport) sum each field over the records with a missing value counted as
\* 0, and each average is total / count when there are records and 0 when
\* there are none.
C19_Averages ==
    /\ report.op = "stats" => RightTotals(report.result, Selected(report))
    /\ report.op = "summary" =>
          /\ RightTotals(report.result.summary, Selected(report))
          /\ \A k \in 1..Len(report.result.by_sport) :
                LET g == report.result.by_sport[k]
                IN  RightTotals(g.stats,
                                { i \in Selected(report) :
                                    activities[i].activity_type = g.activity_type })
          /\ \A i \in Selected(report) :
                \E k \in 1..Len(report.result.by_sport) :
                    report.result.by_sport[k].activity_type = activities[i].activity_type

C19_Witness ==
    /\ Len(activities) = 2
    /\ activities[1].distance = 1000
    /\ activities[2].distance = Missing
    /\ report.op = "stats"
    /\ Selected(report) = {1, 2}
    /\ report.result.total_distance = 1000
    /\ report.result.total_activities = 2
    /\ report.result.average_distance = [num |-> 500, den |-> 1]

\* C20: for a metric and a period, get_trend_timeseries returns exactly one
\* entry per UTC day, week or month that holds a selected record and none
\* for a period without one; an entry's count is the number of selected
\* records in its period and its value the sum of the metric over them (the
\* count again for metric=count); the entries ascend by period_start.
C20_TrendBuckets ==
    (report.op = "trend" /\ report.period \in Periods /\ report.metric \in Metrics)
    => LET S == Selected(report)
           r == report.result
           Start(i) == DateTrunc(activities[i].start_date, report.period)
           In(k) == { i \in S : Start(i) = r[k].period_start }
       IN  /\ { r[k].period_start : k \in 1..Len(r) } = { Start(i) : i \in S }
           /\ Len(r) = Cardinality({ Start(i) : i \in S })
           /\ \A k \in 1..Len(r) :
                 /\ r[k].count = Cardinality(In(k))
                 /\ r[k].count >= 1
                 /\ r[k].value = IF report.metric = "count" THEN Cardinality(In(k))
                                 ELSE TotalOver(In(k), report.metric)
           /\ \A k, l \in 1..Len(r) : k < l => r[k].period_start < r[l].period_start

C20_Witness ==
    /\ Len(activities) = 3
    /\ activities[1].start_date = Jan31Morning
    /\ activities[2].start_date = Feb2
    /\ activities[3].start_date = Jan31Night
    /\ report.op = "trend"
    /\ report.period = "day"
    /\ report.metric = "distance"
    /\ Selected(report) = {1, 2, 3}
    /\ report.result = << [period_start |-> 30 * 24, value |-> 1000, count |-> 2],
                          [period_start |-> 32 * 24, value |-> 1000, count |-> 1] >>

\* C21: a sync request that reached the gateway and ended because a token
\* refresh got no tokens from the token endpoint (the pre-emptive refresh of
\* get_valid_access_token or the forced refresh after a 401), or because the
\* retried request was answered 401 again, is answered with status 401.
C21_RefreshFailureIs401 ==
    \A p \in Procs :
        LET pr == proc[p]
            preFailed == /\ pr.npre = 1
                         /\ pr.nreq = 0
                         /\ refresh_strava_access_token(pr.resp) = "none"
            forcedFailed == /\ pr.nforced = 1
                            /\ pr.nreq = 1
                            /\ refresh_strava_access_token(pr.resp) = "none"
            retryRefused == pr.nreq = 2 /\ pr.last = "401"
        IN  (pr.op = "sync" /\ pr.pc = "done"
             /\ (preFailed \/ forcedFailed \/ retryRefused)) => (pr.status = 401)

\* The answers to a resource request that are failures other than 401.
OtherFailures == ResourceAnswers \ {"200", "401"}

\* C22: a gateway call whose first resource request is answered 403, 404,
\* 429, 5xx, with a timeout or with a transport error ends in that step with
\* an error status, having sent exactly one request: no forced refresh, no
\* retry, and the stored tokens are as they were when the request was sent.
C22_OtherFailuresEndTheCall ==
    /\ [](\A p \in Procs :
            LET pr == proc[p]
                u == get_user_by_strava_id(pr.entry.strava_id)
            IN  (pr.op = "sync" /\ pr.first \in OtherFailures) =>
                  /\ pr.pc = "done"
                  /\ pr.nreq = 1
                  /\ pr.nforced = 0
                  /\ pr.status = make_request(pr.first)
                  /\ pr.status >= 400
                  /\ Triple(u) = IF pr.npre = 0 THEN Triple(pr.entry)
                                 ELSE EncTriple(pr.resp))
    /\ [][\A p \in Procs :
            (proc[p].pc = "gw_request" /\ proc'[p].first \in OtherFailures) =>
                /\ users' = users
                /\ issued' = issued
                /\ writes' = writes]_vars

C22_Witness ==
    \E p \in Procs :
        /\ proc[p].op = "sync"
        /\ proc[p].pc = "done"
        /\ proc[p].first = "timeout"
        /\ proc[p].npre = 1
        /\ proc[p].stored = proc[p].resp.n
        /\ proc[p].nreq = 1
        /\ proc[p].status = 408

\* The decode recorded in report was made of the token as it was issued.
DecodedIssued ==
    /\ report.op \in {"decode", "validate"}
    /\ report.token.sig = "ok"

\* The decode returned the identity the token was issued for.
ReturnsIssued ==
    /\ report.result.err = "none"
    /\ report.result.payload.user_id = report.user_id
    /\ report.result.payload.username = report.username

\* What C23 says at every time but the instant of expiry: the issued token
\* carries expires_at = issued_at + 7 days, and a token whose signature does
\* not verify is invalid at any time, with or without allow_expired.
C23_Frame ==
    /\ (report.op # "none") =>
           /\ session["p1"].exp = report.issued_at + JwtTtl
           /\ session["p1"].user_id = report.user_id
           /\ session["p1"].username = report.username
    /\ (report.op \in {"decode", "validate"} /\ report.token.sig # "ok") =>
           (report.result.err = "invalid")
    /\ (DecodedIssued /\ ~report.allow_expired
        /\ report.at > report.issued_at + JwtTtl) =>
           (report.result.err = "expired")

\* C23 (as claimed): a session token issued at t carries expires_at = t + 7
\* days; strict decode returns the issued user_id and display name at every
\* time not past expires_at (the instant expires_at included), fails with an
\* expiry error at every later time, and fails with an invalid-token error
\* for a token whose signature does not verify, at any time and whatever
\* allow_expired is.
C23_StrictDecode ==
    /\ C23_Frame
    /\ (DecodedIssued /\ report.op = "decode" /\ ~report.allow_expired
        /\ report.at <= report.issued_at + JwtTtl) => ReturnsIssued

\* C23 (amended): the same, with strict decode returning the issued user_id
\* and display name at every time before expires_at; at the instant
\* expires_at itself it either returns them or fails with an expiry error.
\* validate_jwt_token does the same for a non-empty display name.
C23_StrictDecodeBeforeExpiry ==
    /\ C23_Frame
    /\ (DecodedIssued /\ ~report.allow_expired
        /\ (report.op = "decode" \/ report.username # "")
        /\ report.at < report.issued_at + JwtTtl) => ReturnsIssued
    /\ (DecodedIssued /\ ~report.allow_expired
        /\ (report.op = "decode" \/ report.username # "")
        /\ report.at = report.issued_at + JwtTtl) =>
           (ReturnsIssued \/ report.result.err = "expired")

C23_Witness ==
    /\ report.op = "decode"
    /\ report.token = session["p1"]
    /\ ~report.allow_expired
    /\ report.issued_at > T0
    /\ report.at = report.issued_at + JwtTtl - 1
    /\ report.result.err = "none"
    /\ report.result.payload.user_id = report.user_id
    /\ report.result.payload.username = report.username

\* Strict validation rejects the token at time t for a reason other than
\* expiry: the signature does not verify or the payload is malformed.
RejectedNotExpired(token, t) ==
    \A v \in validate_jwt_token(token, t) : v.err \notin {"none", "expired"}

\* C24: the step of the middleware that decodes a token which strict
\* validation rejects for a reason other than expiry (bad signature, missing
\* or empty user_id or display name) ends the middleware unauthenticated:
\* no identity, no user attached, no new session token.
C24_LenientOnlyOnExpiry ==
    [][\A p \in Procs :
          LET jwt_token == extract_jwt_from_session(session[p], bearer[p])
          IN  (/\ proc[p].op \in {"mw", "sync"}
               /\ proc[p].pc = "mw_resolve"
               /\ proc'[p].pc # "mw_resolve"
               /\ jwt_token # NoJwt
               /\ RejectedNotExpired(jwt_token, now)) =>
                 /\ proc'[p].pc = "done"
                 /\ proc'[p].ident = NoInfo
                 /\ proc'[p].issuedAt = 0
                 /\ attached'[p] = NoUser
                 /\ session'[p] = session[p]
      ]_vars

\* C25: wherever the code tests the stored upstream expiry (the middleware,
\* get_valid_access_token), the token counts as expired exactly when
\* now >= expires_at - 300 seconds, the instant now = expires_at - 300
\* included.
C25_ExpiredFromBufferEdge ==
    [][\A p \in Procs :
          /\ (/\ proc[p].pc = "gw_read"
              /\ proc'[p].pc \in {"gw_prerefresh", "gw_request"}) =>
                ((proc'[p].pc = "gw_prerefresh") <=>
                     (now >= proc'[p].entry.token_expires_at - BufferTime))
          /\ (/\ proc[p].pc = "mw_resolve"
              /\ proc'[p].pc # "mw_resolve"
              /\ proc'[p].user # NoUser) =>
                (proc'[p].stale <=>
                     (now >= proc'[p].user.token_expires_at - BufferTime))
      ]_vars

\* The refresh requests a worker's request has sent to the token endpoint.
RefreshRequests(pr) == pr.nmw + pr.npre + pr.nforced

\* C26: no refresh path (get_valid_access_token, the gateway's 401 path, the
\* middleware, /api/auth/user, /api/auth/status, /api/auth/refresh) sends a
\* request to the token endpoint when the stored refresh token is absent or
\* decrypts to the empty string; the path fails instead.
C26_NoRefreshWithoutToken ==
    [][\A p \in Procs :
          (/\ proc'[p].op = proc[p].op
           /\ RefreshRequests(proc'[p]) > RefreshRequests(proc[p])) =>
              /\ Truthy(proc[p].sent)
              /\ Truthy(decrypt_token(proc[p].user.refresh_token))
      ]_vars

\* C27: an insight normalized from a reply of the provider that has no model
\* field, or an empty one, carries a model all the same (the identifier of
\* the generator): its model is never null or empty.
C27_ModelDefaulted ==
    \A k \in 1..Len(history) :
        LET h == history[k]
            raw == generate_json(h.outcome)
        IN  (/\ h.op \in {"generate", "fetch", "summary"}
             /\ h.invoked = 1
             /\ h.status = 200
             /\ IsObject(raw)
             /\ strip(PyStr(GetOr(raw.model, JStr("")))) = "")
            => (h.body.model # "")

\* C28: for an authenticated user whose record exists, the statistics
\* summary handler answers 200 with the count, totals and averages, for
\* every stored set of activities, the empty one included.
C28_StatsSummarySucceeds ==
    (/\ report.op = "stats_route"
     /\ get_user_by_strava_id(report.user_id) # NoUser)
    => /\ report.result.status = 200
       /\ report.result.stats.total_activities
             = Cardinality({ i \in 1..Len(activities) :
                                 activities[i].user_id = report.user_id })

\* C29: the forced refresh a gateway call performs after a 401 sends the
\* refresh token that is stored for the user at that time; when the call's
\* own pre-emptive refresh has stored a rotated refresh token, that one is
\* sent and not the one of the record the caller read before.
C29_ForcedRefreshUsesStoredToken ==
    \A p \in Procs :
        (proc[p].op = "sync" /\ proc[p].pc = "gw_refresh") =>
            (proc[p].sent =
                 decrypt_token(get_user_by_strava_id(proc[p].entry.strava_id).refresh_token))

\* C30: validate_and_inject_user writes the session's jwt_token only when it
\* authorizes a request through the lenient decode.  While it runs and
\* whenever it ends without an identity, or with an identity for a token
\* that passed strict validation, the session is as the request brought it.
C30_SessionWrittenOnlyOnRenewal ==
    \A p \in Procs :
        LET pr == proc[p]
            renewed == /\ pr.pc \notin MwPositions
                       /\ pr.ident # NoInfo
                       /\ pr.jwt_expired
        IN  (pr.op \in {"mw", "sync"}) =>
              /\ (session[p] # pr.tok0) => renewed
              /\ ~renewed => (session[p] = pr.tok0 /\ pr.issuedAt = 0)
              /\ renewed => (session[p] = create_jwt_token(pr.user.strava_id,
                                                         pr.user.username, pr.issuedAt))

C30_Witness ==
    \E p \in Procs :
        /\ proc[p].op = "mw"
        /\ proc[p].pc = "done"
        /\ proc[p].tok0 = Expired1
        /\ ~proc[p].stale
        /\ proc[p].jwt_expired
        /\ proc[p].ident = [user_id |-> 1, username |-> "alice"]
        /\ session[p] # Expired1
        /\ session[p].exp = now + JwtTtl

====
